---- MODULE Spec2Model ----
(***************************************************************************)
(* Habit & Gym Tracker backend: the workout routes (routes/workouts.js),   *)
(* the habit routes (routes/habits.js) and the Mongoose models they use.   *)
(*                                                                         *)
(* The specifications share the variables:                                 *)
(*   Spec      - workout requests handled one at a time;                   *)
(*   SpecRace  - start requests whose two datastore steps interleave;      *)
(*   SpecHabit - habit and user-stats requests handled one at a time;      *)
(*   SpecStats - dated workouts and the statistics computed from them;     *)
(*   SpecOwner - workout and habit requests of two users;                  *)
(*   SpecFail  - workout requests whose datastore writes may throw;        *)
(*   SpecDash  - the dashboard page and its achievements;                  *)
(*   SpecTimer, SpecSeconds - the workout life cycle with a running clock; *)
(*   SpecComplete - complete requests whose datastore steps interleave;    *)
(*   SpecLibrary - the exercise library read by a second user;             *)
(*   SpecPage  - the workouts page, its polling timer and its requests;    *)
(*   SpecHabits - the habits page and the streak it shows.                 *)
(*                                                                         *)
(* Time.  `now` is the server clock (Date.now()).  In the workout          *)
(* specifications one second (1000 ms) is SecTicks clock ticks; in the     *)
(* habit specification one day (86400000 ms) is DayTicks clock ticks.      *)
(* The server process runs in UTC (the default of the VPS deployment the   *)
(* repository describes): a local day is a block of DayTicks ticks, local  *)
(* midnight is the start of the block and toISOString() names that day.    *)
(***************************************************************************)
EXTENDS Integers, Sequences, FiniteSets, TLC

VARIABLES
    now,        \* the server clock, in ticks
    workouts,   \* the workouts collection: _id -> document
    nextId,     \* the _id the next inserted workout gets
    library,    \* the exerciselibraries collection: name -> document
    slots,      \* the requests in flight (SpecRace, SpecComplete, SpecPage)
    step,       \* number of requests handled (of steps taken, where requests
                \* are in flight)
    habit,      \* the habit document (or NoHabit)
    res,        \* the response of the last request; the state of the page in
                \* SpecDash, SpecPage and SpecHabits
    timeline    \* history: _id -> ticks the workout has spent active and paused

vars == <<now, workouts, nextId, library, slots, step, habit, res, timeline>>

(***************************************************************************)
(* Bounds of the model.                                                    *)
(***************************************************************************)
MaxOps == 4             \* requests handled in a behaviour of Spec
MaxReqs == 3            \* start requests of SpecRace

Users == {"u1", "u2"}
Ids == 1..nextId                         \* the ids a request can name: stored, deleted or unknown
Names == {"", "Squat"}                  \* exercise names of request bodies

SecTicks == 2           \* clock ticks per 1000 ms
NullTime == 0 - 1       \* a Date field holding null
NoRes == [op |-> "none"]
Undefined == [defined |-> FALSE]       \* an absent field of a request body
Def(v) == [defined |-> TRUE, v |-> v]  \* a field of a request body holding v
Optional(S) == {Undefined} \cup {Def(v) : v \in S}

(***************************************************************************)
(* Workout model (models/Workout.js).                                      *)
(***************************************************************************)
\* Math.floor((b - a) / 1000) for two Dates a <= b
ElapsedSeconds(a, b) == (b - a) \div SecTicks

\* Workout.findOne({ _id, userId }): the document, when there is one
Owned(u, id) == id \in DOMAIN workouts /\ workouts[id].userId = u

\* the documents matching { userId, status: { $in: ['active','paused'] } }
ActiveQueryActiveOnly(u) ==
    {id \in DOMAIN workouts :
        workouts[id].userId = u /\ workouts[id].status = "active"}

ActiveQuery(u) ==
    {id \in DOMAIN workouts :
        workouts[id].userId = u /\ workouts[id].status \in {"active", "paused"}}

\* new Workout({...status: 'active'...}) of the start route
StartedWorkout(u) ==
    [userId |-> u, date |-> now,
     status |-> "active", startTime |-> now, endTime |-> NullTime,
     duration |-> 0, pausedDuration |-> 0, pausedAt |-> NullTime,
     exercises |-> <<>>]

\* workout.save() of a new document
Insert(doc) ==
    /\ workouts' = [id \in DOMAIN workouts \cup {nextId} |->
                        IF id = nextId THEN doc ELSE workouts[id]]
    /\ nextId' = nextId + 1

\* ExerciseLibrary.findOneAndUpdate({name}, {$set.., $inc: {usageCount: 1}}, {upsert})
LibraryUpsert(lib, name, u) ==
    [n \in DOMAIN lib \cup {name} |->
        IF n = name
        THEN [createdBy |-> u,
              usageCount |-> IF n \in DOMAIN lib THEN lib[n].usageCount + 1 ELSE 1]
        ELSE lib[n]]

RECURSIVE LibraryUpsertAll(_, _, _)
LibraryUpsertAll(lib, exercises, u) ==
    IF exercises = <<>> THEN lib
    ELSE LibraryUpsertAll(LibraryUpsert(lib, Head(exercises).name, u),
                          Tail(exercises), u)

\* exercise lists a request body can carry
BodyExercises ==
    {<<>>, <<[name |-> "Squat", sets |-> <<[reps |-> 1, weight |-> 1]>>]>>}
BodyDurations == {1}
BodyDates == {1}
BodyRepsWeight == {<<0, 1>>, <<1, 0>>, <<1, 1>>}

(***************************************************************************)
(* Workout routes, each handled as one step.                               *)
(***************************************************************************)
\* one more request has been handled
Handled == step < MaxOps /\ step' = step + 1 /\ UNCHANGED timeline

\* POST /start
StartNoReturn(u) ==
    /\ Insert(StartedWorkout(u))
    /\ IF ActiveQuery(u) # {}
       THEN \E a \in ActiveQuery(u) :
                res' = [op |-> "start", user |-> u, status |-> 400,
                        activeWorkoutId |-> a]
       ELSE res' = [op |-> "start", user |-> u, status |-> 201,
                    activeWorkoutId |-> nextId]
    /\ Handled /\ UNCHANGED <<now, library, slots, habit>>

Start(u) ==
    /\ IF ActiveQuery(u) # {}
       THEN /\ \E a \in ActiveQuery(u) :
                    res' = [op |-> "start", user |-> u, status |-> 400,
                            activeWorkoutId |-> a]
            /\ UNCHANGED <<workouts, nextId>>
       ELSE /\ Insert(StartedWorkout(u))
            /\ res' = [op |-> "start", user |-> u, status |-> 201,
                       activeWorkoutId |-> nextId]
    /\ Handled /\ UNCHANGED <<now, library, slots, habit>>

\* a request answered without a change of the workouts collection
Reply(op, u, id, status) ==
    /\ res' = [op |-> op, user |-> u, id |-> id, status |-> status]
    /\ UNCHANGED <<workouts, nextId, library>>

\* workout.save() of a loaded document, answered with 200
Save(op, u, id, doc) ==
    /\ workouts' = [workouts EXCEPT ![id] = doc]
    /\ res' = [op |-> op, user |-> u, id |-> id, status |-> 200]
    /\ UNCHANGED nextId

\* POST /:id/pause
PauseAnyStatus(u, id) ==
    /\ IF ~Owned(u, id) THEN Reply("pause", u, id, 404)
       ELSE /\ Save("pause", u, id,
                    [workouts[id] EXCEPT
                        !.duration = @ + ElapsedSeconds(workouts[id].startTime, now),
                        !.pausedAt = now,
                        !.status = "paused"])
            /\ UNCHANGED library
    /\ Handled /\ UNCHANGED <<now, slots, habit>>

Pause(u, id) ==
    /\ IF ~Owned(u, id) THEN Reply("pause", u, id, 404)
       ELSE IF workouts[id].status # "active" THEN Reply("pause", u, id, 400)
       ELSE /\ Save("pause", u, id,
                    [workouts[id] EXCEPT
                        !.duration = @ + ElapsedSeconds(workouts[id].startTime, now),
                        !.pausedAt = now,
                        !.status = "paused"])
            /\ UNCHANGED library
    /\ Handled /\ UNCHANGED <<now, slots, habit>>

\* POST /:id/resume
Resume(u, id) ==
    /\ IF ~Owned(u, id) THEN Reply("resume", u, id, 404)
       ELSE IF workouts[id].status # "paused" THEN Reply("resume", u, id, 400)
       ELSE /\ Save("resume", u, id,
                    [workouts[id] EXCEPT
                        !.pausedDuration = @ + ElapsedSeconds(workouts[id].pausedAt, now),
                        !.pausedAt = NullTime,
                        !.status = "active",
                        !.startTime = now])
            /\ UNCHANGED library
    /\ Handled /\ UNCHANGED <<now, slots, habit>>

\* the workout after lines 471-484 of the end route
EndedWorkout(id) ==
    [workouts[id] EXCEPT
        !.status = "completed",
        !.endTime = now,
        !.duration =
            IF workouts[id].status = "active"
            THEN @ + ElapsedSeconds(workouts[id].startTime, now)
            ELSE @,
        !.pausedAt = NullTime]

\* POST /:id/end
End(u, id) ==
    /\ IF ~Owned(u, id) THEN Reply("end", u, id, 404)
       ELSE IF workouts[id].status \notin {"active", "paused"}
            THEN Reply("end", u, id, 400)
       ELSE /\ Save("end", u, id, EndedWorkout(id))
            /\ UNCHANGED library
    /\ Handled /\ UNCHANGED <<now, slots, habit>>

\* a request answered by the catch block: res.status(500)
ServerError(op, u, id) == res' = [op |-> op, user |-> u, id |-> id, status |-> 500]

\* POST / (manual creation); date is the body's date, Undefined when absent.
\* failAt is the datastore write that throws: 0 for none, 1 for workout.save(),
\* k + 1 for the findOneAndUpdate of the k-th exercise
Create(u, date, exercises, duration, failAt) ==
    /\ failAt <= Len(exercises) + 1
    /\ IF exercises = <<>>
       THEN Reply("create", u, 0, 400)
       ELSE IF failAt = 1
       THEN /\ ServerError("create", u, 0)
            /\ UNCHANGED <<workouts, nextId, library>>
       ELSE /\ Insert([userId |-> u,
                       date |-> IF date.defined THEN date.v ELSE now,
                       status |-> "completed",
                       startTime |-> NullTime,
                       endTime |-> IF date.defined THEN date.v ELSE now,
                       duration |-> IF duration.defined THEN duration.v ELSE 0,
                       pausedDuration |-> 0,
                       pausedAt |-> NullTime, exercises |-> exercises])
            /\ IF failAt = 0
               THEN /\ library' = LibraryUpsertAll(library, exercises, u)
                    /\ res' = [op |-> "create", user |-> u, id |-> nextId,
                               status |-> 201]
               ELSE /\ library' = LibraryUpsertAll(
                                      library, SubSeq(exercises, 1, failAt - 2), u)
                    /\ ServerError("create", u, 0)
    /\ Handled /\ UNCHANGED <<now, slots, habit>>

\* POST /:id/exercises; failAt is the datastore write that throws: 0 for none,
\* 1 for workout.save(), 2 for the findOneAndUpdate
AddExercise(u, id, name, failAt) ==
    /\ IF ~Owned(u, id) THEN Reply("addExercise", u, id, 404)
       ELSE IF name = "" THEN Reply("addExercise", u, id, 400)
       ELSE IF failAt = 1
       THEN /\ ServerError("addExercise", u, id)
            /\ UNCHANGED <<workouts, nextId, library>>
       ELSE /\ workouts' = [workouts EXCEPT ![id].exercises =
                                Append(@, [name |-> name, sets |-> <<>>])]
            /\ UNCHANGED nextId
            /\ IF failAt = 0
               THEN /\ library' = LibraryUpsert(library, name, u)
                    /\ res' = [op |-> "addExercise", user |-> u, id |-> id,
                               status |-> 200]
               ELSE /\ ServerError("addExercise", u, id)
                    /\ UNCHANGED library
    /\ Handled /\ UNCHANGED <<now, slots, habit>>

\* POST /:id/exercises/:exerciseIndex/sets
AddSet(u, id, exerciseIndex, reps, weight) ==
    /\ IF ~Owned(u, id) THEN Reply("addSet", u, id, 404)
       ELSE IF exerciseIndex < 0 \/ exerciseIndex >= Len(workouts[id].exercises)
            THEN Reply("addSet", u, id, 400)
       ELSE IF reps = 0 \/ weight = 0 THEN Reply("addSet", u, id, 400)
       ELSE /\ Save("addSet", u, id,
                    [workouts[id] EXCEPT
                        !.exercises[exerciseIndex + 1].sets =
                            Append(@, [reps |-> reps, weight |-> weight])])
            /\ UNCHANGED library
    /\ Handled /\ UNCHANGED <<now, slots, habit>>

\* PUT /:id; a body field that is absent is Undefined
UpdateAnyStatus(u, id, date, exercises, duration) ==
    /\ IF ~Owned(u, id) THEN Reply("update", u, id, 404)
       ELSE /\ Save("update", u, id,
                    [workouts[id] EXCEPT
                        !.date = IF date.defined THEN date.v ELSE @,
                        !.exercises = IF exercises.defined THEN exercises.v ELSE @,
                        !.duration = IF duration.defined THEN duration.v ELSE @])
            /\ UNCHANGED library
    /\ Handled /\ UNCHANGED <<now, slots, habit>>

Update(u, id, date, exercises, duration) ==
    /\ IF ~Owned(u, id) THEN Reply("update", u, id, 404)
       ELSE IF workouts[id].status = "active" \/ workouts[id].status = "paused"
            THEN Reply("update", u, id, 400)
       ELSE /\ Save("update", u, id,
                    [workouts[id] EXCEPT
                        !.date = IF date.defined THEN date.v ELSE @,
                        !.exercises = IF exercises.defined THEN exercises.v ELSE @,
                        !.duration = IF duration.defined THEN duration.v ELSE @])
            /\ UNCHANGED library
    /\ Handled /\ UNCHANGED <<now, slots, habit>>

\* DELETE /:id
Delete(u, id) ==
    /\ IF ~Owned(u, id) THEN Reply("delete", u, id, 404)
       ELSE /\ workouts' = [i \in DOMAIN workouts \ {id} |-> workouts[i]]
            /\ res' = [op |-> "delete", user |-> u, id |-> id, status |-> 200]
            /\ UNCHANGED <<nextId, library>>
    /\ Handled /\ UNCHANGED <<now, slots, habit>>

(***************************************************************************)
(* POST /start as its two datastore steps: the findOne of lines 71-74 and  *)
(* the save of line 94.  A slot is one start request in flight.            *)
(***************************************************************************)
IdleSlot ==
    [pc |-> "idle", user |-> "", status |-> 0, created |-> 0,
     checkedAt |-> 0, insertedAt |-> 0]

\* await Workout.findOne({ userId, status: { $in: [...] } }) and the 400 reply
StartCheck(r, u) ==
    /\ slots[r].pc = "idle"
    /\ step' = step + 1
    /\ IF ActiveQuery(u) # {}
       THEN /\ \E a \in ActiveQuery(u) :
                    res' = [op |-> "start", user |-> u, status |-> 400,
                            activeWorkoutId |-> a]
            /\ slots' = [slots EXCEPT ![r] =
                            [IdleSlot EXCEPT !.pc = "done", !.user = u,
                                             !.status = 400,
                                             !.checkedAt = step + 1]]
       ELSE /\ slots' = [slots EXCEPT ![r] =
                            [IdleSlot EXCEPT !.pc = "checked", !.user = u,
                                             !.checkedAt = step + 1]]
            /\ UNCHANGED res
    /\ UNCHANGED <<now, workouts, nextId, library, habit, timeline>>

\* the insert as it would be with a unique index on the in-progress workouts
StartInsertUnique(r) ==
    /\ slots[r].pc = "checked"
    /\ step' = step + 1
    /\ IF ActiveQuery(slots[r].user) # {}
       THEN /\ slots' = [slots EXCEPT ![r].pc = "done", ![r].status = 500,
                                      ![r].insertedAt = step + 1]
            /\ res' = [op |-> "start", user |-> slots[r].user, status |-> 500,
                       activeWorkoutId |-> 0]
            /\ UNCHANGED <<workouts, nextId>>
       ELSE /\ Insert(StartedWorkout(slots[r].user))
            /\ slots' = [slots EXCEPT ![r].pc = "done", ![r].status = 201,
                                      ![r].created = nextId,
                                      ![r].insertedAt = step + 1]
            /\ res' = [op |-> "start", user |-> slots[r].user, status |-> 201,
                       activeWorkoutId |-> nextId]
    /\ UNCHANGED <<now, library, habit, timeline>>

\* new Workout({...}); await workout.save(); the 201 reply
StartInsert(r) ==
    /\ slots[r].pc = "checked"
    /\ step' = step + 1
    /\ Insert(StartedWorkout(slots[r].user))
    /\ slots' = [slots EXCEPT ![r].pc = "done", ![r].status = 201,
                              ![r].created = nextId,
                              ![r].insertedAt = step + 1]
    /\ res' = [op |-> "start", user |-> slots[r].user, status |-> 201,
               activeWorkoutId |-> nextId]
    /\ UNCHANGED <<now, library, habit, timeline>>

(***************************************************************************)
(* Habit model (models/Habit.js) and date arithmetic.                      *)
(***************************************************************************)
MaxClock == 2           \* last clock tick of SpecHabit
DayTicks == 2           \* clock ticks per 86400000 ms
HeatmapDays == 30       \* entries of heatmapData
DefaultDays == 30       \* const { days = 30 } = req.query
EpochWeekday == 4       \* getDay() of the day of tick 0 (1 January 1970)
NullValue == 0 - 1      \* a Number field holding null

NoHabit == [exists |-> FALSE]

Min(S) == CHOOSE x \in S : \A y \in S : x <= y
Max(S) == CHOOSE x \in S : \A y \in S : x >= y

StartOfDay(t) == t - (t % DayTicks)         \* d.setHours(0, 0, 0, 0)
AddDays(t, n) == t + n * DayTicks           \* d.setDate(d.getDate() + n)
IsoDate(t) == t \div DayTicks               \* d.toISOString().split('T')[0], as a day number
GetDay(t) == ((t \div DayTicks) + EpochWeekday) % 7     \* d.getDay()
Ceil(a, b) == 0 - ((0 - a) \div b)          \* Math.ceil(a / b)
Round(a, b) == (2 * a + b) \div (2 * b)     \* Math.round(a / b), a >= 0, b > 0

\* the date of a request body: absent, unparsable, or a point in time
DateAbsent == [kind |-> "absent", t |-> 0]
DateInvalid == [kind |-> "invalid", t |-> 0]
DateAt(t) == [kind |-> "at", t |-> t]

\* date ? new Date(date) : new Date(), then setHours(0, 0, 0, 0)
CompletionDateRaw(date) ==
    IF date.kind = "absent" THEN now ELSE date.t

CompletionDate(date) ==
    IF date.kind = "absent" THEN StartOfDay(now) ELSE StartOfDay(date.t)

\* habit.completions.find(c => midnight of c.date === completionDate): its index, or 0
FindCompletion(completions, completionDate) ==
    LET found == {i \in 1..Len(completions) :
                    StartOfDay(completions[i].date) = completionDate}
    IN  IF found = {} THEN 0 ELSE Min(found)

\* the habit document after lines 254-275 of the complete route
CompleteDocAlwaysPush(h, date, value) ==
    [h EXCEPT !.completions =
        Append(@, [date |-> CompletionDate(date), completed |-> TRUE,
                   value |-> IF h.goalType = "numeric" /\ value.defined
                             THEN value.v ELSE NullValue])]

CompleteDoc(h, date, value) ==
    LET completionDate == CompletionDate(date)
        existing == FindCompletion(h.completions, completionDate)
    IN  IF existing # 0
        THEN [h EXCEPT !.completions[existing].completed = TRUE,
                       !.completions[existing].value =
                            IF value.defined /\ h.goalType = "numeric"
                            THEN value.v ELSE @]
        ELSE [h EXCEPT !.completions =
                Append(@, [date |-> completionDate, completed |-> TRUE,
                           value |-> IF h.goalType = "numeric" /\ value.defined
                                     THEN value.v ELSE NullValue])]

(***************************************************************************)
(* Habit analytics (GET /:id/analytics).                                  *)
(***************************************************************************)
\* the days query parameter after parseInt: absent, NaN, or an integer
DaysAbsent == [kind |-> "absent", n |-> 0]
DaysNaN == [kind |-> "nan", n |-> 0]
DaysInt(n) == [kind |-> "int", n |-> n]

Completed(completions) == SelectSeq(completions, LAMBDA c : c.completed)

\* Array.prototype.sort((a, b) => new Date(b.date) - new Date(a.date)), stable
RECURSIVE InsertDesc(_, _)
InsertDesc(sorted, c) ==
    IF sorted = <<>> THEN <<c>>
    ELSE IF Head(sorted).date >= c.date
         THEN <<Head(sorted)>> \o InsertDesc(Tail(sorted), c)
         ELSE <<c>> \o sorted

RECURSIVE SortDesc(_)
SortDesc(completions) ==
    IF completions = <<>> THEN <<>>
    ELSE InsertDesc(SortDesc(SubSeq(completions, 1, Len(completions) - 1)),
                    completions[Len(completions)])

\* lines 322-325: the start of the window
WindowStart(days) == StartOfDay(AddDays(now, 0 - days))

\* lines 328-332
FilteredCompletions(completions, q) ==
    IF q.kind = "nan" THEN <<>>
    ELSE LET days == IF q.kind = "absent" THEN DefaultDays ELSE q.n
         IN  SelectSeq(completions,
                       LAMBDA c : StartOfDay(c.date) >= WindowStart(days))

\* lines 334-336 and 428, in hundredths of a percent
CompletionRate(completions, q) ==
    IF q.kind = "nan" THEN 0
    ELSE LET days == IF q.kind = "absent" THEN DefaultDays ELSE q.n
             completedCount == Len(Completed(FilteredCompletions(completions, q)))
             totalDaysInRange == Ceil(now - WindowStart(days), DayTicks)
         IN  IF totalDaysInRange > 0
             THEN Round(completedCount * 100 * 100, totalDaysInRange)
             ELSE 0

\* lines 359-369: the loop that walks back from the last completion
RECURSIVE WalkBack(_, _, _)
WalkBack(sorted, i, checkDate) ==
    IF i > Len(sorted) THEN 0
    ELSE IF StartOfDay(sorted[i].date) = checkDate
         THEN 1 + WalkBack(sorted, i + 1, AddDays(checkDate, 0 - 1))
         ELSE 0

\* lines 343-370
CurrentStreakTodayOnly(sorted) ==
    IF sorted = <<>> THEN 0
    ELSE LET today == StartOfDay(now)
             lastCompletion == StartOfDay(sorted[1].date)
         IN  IF lastCompletion = today
             THEN 1 + WalkBack(sorted, 2, AddDays(lastCompletion, 0 - 1))
             ELSE 0

CurrentStreak(sorted) ==
    IF sorted = <<>> THEN 0
    ELSE LET today == StartOfDay(now)
             lastCompletion == StartOfDay(sorted[1].date)
         IN  IF lastCompletion = today \/ lastCompletion = today - DayTicks
             THEN 1 + WalkBack(sorted, 2, AddDays(lastCompletion, 0 - 1))
             ELSE 0

\* lines 373-391: the loop over i with tempStreak and longestStreak
RECURSIVE LongestLoop(_, _, _, _)
LongestLoop(sorted, i, tempStreak, longestStreak) ==
    IF i > Len(sorted) THEN <<tempStreak, longestStreak>>
    ELSE IF i = 1 THEN LongestLoop(sorted, 2, 1, 1)
    ELSE LET prevDate == StartOfDay(sorted[i - 1].date)
             currDate == StartOfDay(sorted[i].date)
             daysDiff == (prevDate - currDate) \div DayTicks
         IN  IF daysDiff = 1
             THEN LongestLoop(sorted, i + 1, tempStreak + 1, longestStreak)
             ELSE LongestLoop(sorted, i + 1, 1,
                              IF longestStreak > tempStreak THEN longestStreak
                              ELSE tempStreak)

\* lines 344-393
LongestStreakNoFinalMax(sorted) ==
    IF sorted = <<>> THEN 0
    ELSE LongestLoop(sorted, 1, 0, 0)[2]

LongestStreakUnguarded(sorted) ==
    LET r == LongestLoop(sorted, 1, 1, 1)
    IN  IF r[2] > r[1] THEN r[2] ELSE r[1]

LongestStreak(sorted) ==
    IF sorted = <<>> THEN 0
    ELSE LET r == LongestLoop(sorted, 1, 0, 0)
         IN  IF r[2] > r[1] THEN r[2] ELSE r[1]

\* lines 396-405
WeeklyData(completions, q) ==
    LET counted == Completed(FilteredCompletions(completions, q))
    IN  [day \in 0..6 |->
            Cardinality({i \in 1..Len(counted) : GetDay(counted[i].date) = day})]

\* lines 414-424: the heatmap entry of the day that starts at date
HeatmapEntryAnyRecord(completions, date) ==
    LET found == {i \in 1..Len(completions) :
                    StartOfDay(completions[i].date) = date}
    IN  [date |-> IsoDate(date),
         completed |-> found # {},
         value |-> IF found = {} THEN NullValue
                   ELSE completions[Min(found)].value]

HeatmapEntry(completions, date) ==
    LET found == {i \in 1..Len(completions) :
                    /\ StartOfDay(completions[i].date) = date
                    /\ completions[i].completed}
    IN  [date |-> IsoDate(date),
         completed |-> found # {},
         value |-> IF found = {} THEN NullValue
                   ELSE completions[Min(found)].value]

\* lines 408-425: for (let i = 29; i >= 0; i--)
HeatmapData(completions) ==
    [k \in 1..HeatmapDays |->
        HeatmapEntry(completions,
                     StartOfDay(AddDays(now, 0 - (HeatmapDays - k))))]

\* the inputs of the habit requests
HabitsCreated ==
    {[exists |-> TRUE, userId |-> "u1", goalType |-> "numeric", startDate |-> 0,
      completions |-> <<>>],
     [exists |-> TRUE, userId |-> "u1", goalType |-> "yes_no",
      startDate |-> 0 - 3 * DayTicks, completions |-> <<>>]}
DateInputs ==
    {DateAbsent, DateInvalid}
        \cup {DateAt(t) : t \in {0 - 2 * DayTicks, 0 - DayTicks, 0, 1, DayTicks}}
ValueInputs == Optional({1, 2})
DaysInputs == {DaysAbsent, DaysNaN} \cup {DaysInt(n) : n \in {0, 2}}

(***************************************************************************)
(* Habit routes, each handled as one step.                                 *)
(***************************************************************************)
\* Habit.findOne({ _id: req.params.id, userId: req.user._id })
OwnedHabitAnyUser(u) == habit.exists

OwnedHabit(u) == habit.exists /\ habit.userId = u

\* return res.status(404).json({ message: 'Habit not found' })
HabitNotFound(op, u) ==
    /\ res' = [op |-> op, user |-> u, status |-> 404]
    /\ UNCHANGED habit

\* PUT /:id; startDate is the body's startDate, Undefined when absent
UpdateHabit(u, startDate) ==
    /\ IF ~OwnedHabit(u) THEN HabitNotFound("updateHabit", u)
       ELSE /\ habit' = [habit EXCEPT !.startDate =
                            IF startDate.defined THEN startDate.v ELSE @]
            /\ res' = [op |-> "updateHabit", user |-> u, status |-> 200,
                       habit |-> habit']
    /\ Handled
    /\ UNCHANGED <<now, workouts, nextId, library, slots>>

\* DELETE /:id
DeleteHabit(u) ==
    /\ IF ~OwnedHabit(u) THEN HabitNotFound("deleteHabit", u)
       ELSE /\ habit' = NoHabit
            /\ res' = [op |-> "deleteHabit", user |-> u, status |-> 200]
    /\ Handled
    /\ UNCHANGED <<now, workouts, nextId, library, slots>>

\* POST /:id/complete
Complete(u, date, value) ==
    /\ IF ~OwnedHabit(u) THEN HabitNotFound("complete", u)
       ELSE IF date.kind = "invalid"
       THEN \* the pushed Invalid Date fails the schema's cast in habit.save()
            res' = [op |-> "complete", user |-> u, status |-> 500,
                    existing |-> FALSE]
            /\ UNCHANGED habit
       ELSE /\ habit' = CompleteDoc(habit, date, value)
            /\ res' = [op |-> "complete", user |-> u, status |-> 200,
                       existing |-> FindCompletion(habit.completions,
                                                   CompletionDate(date)) # 0]
    /\ Handled
    /\ UNCHANGED <<now, workouts, nextId, library, slots>>

\* the habit document after lines 295-304 of the uncomplete route
UncompleteDoc(h, date) ==
    LET existing == IF date.kind = "invalid" THEN 0
                    ELSE FindCompletion(h.completions, CompletionDate(date))
    IN  IF existing # 0
        THEN [h EXCEPT !.completions[existing].completed = FALSE]
        ELSE h

\* POST /:id/uncomplete
Uncomplete(u, date) ==
    /\ IF ~OwnedHabit(u) THEN HabitNotFound("uncomplete", u)
       ELSE LET existing == IF date.kind = "invalid" THEN 0
                            ELSE FindCompletion(habit.completions,
                                                CompletionDate(date))
            IN  /\ habit' = UncompleteDoc(habit, date)
                /\ res' = [op |-> "uncomplete", user |-> u, status |-> 200,
                           existing |-> existing # 0]
    /\ Handled
    /\ UNCHANGED <<now, workouts, nextId, library, slots>>

\* GET /:id/analytics; q is the days query parameter
Analytics(u) ==
    /\ IF ~OwnedHabit(u) THEN HabitNotFound("analytics", u)
       ELSE LET sortedCompletions == SortDesc(Completed(habit.completions))
                currentStreak == CurrentStreak(sortedCompletions)
                longestStreak == LongestStreak(sortedCompletions)
                heatmapData == HeatmapData(habit.completions)
            IN  /\ \E q \in DaysInputs :
                    res' = [op |-> "analytics", user |-> u, status |-> 200,
                            completionRate |-> CompletionRate(habit.completions, q),
                            currentStreak |-> currentStreak,
                            longestStreak |-> longestStreak,
                            totalCompletions |->
                                Len(Completed(FilteredCompletions(habit.completions, q))),
                            weeklyData |-> WeeklyData(habit.completions, q),
                            heatmapData |-> heatmapData]
                /\ UNCHANGED habit
    /\ Handled
    /\ UNCHANGED <<now, workouts, nextId, library, slots>>

\* routes/user.js lines 88-111: the run of consecutive days that starts at the
\* most recent completed record
RECURSIVE LeadingRun(_, _)
LeadingRun(sortedCompletions, i) ==
    IF i > Len(sortedCompletions) THEN 0
    ELSE IF StartOfDay(sortedCompletions[i].date)
                = AddDays(StartOfDay(sortedCompletions[i - 1].date), 0 - 1)
         THEN 1 + LeadingRun(sortedCompletions, i + 1)
         ELSE 0

\* routes/user.js lines 85-115: for (const habit of habits) { ... Math.max ... }
RECURSIVE StatsLongestStreak(_)
StatsLongestStreak(habits) ==
    IF habits = <<>> THEN 0
    ELSE LET before == StatsLongestStreak(SubSeq(habits, 1, Len(habits) - 1))
             sortedCompletions ==
                 SortDesc(Completed(habits[Len(habits)].completions))
         IN  IF sortedCompletions = <<>> THEN before
             ELSE Max({before, 1 + LeadingRun(sortedCompletions, 2)})

\* GET /api/user/stats
UserStats(u) ==
    /\ LET habits == IF OwnedHabit(u) THEN <<habit>> ELSE <<>>
       IN  res' = [op |-> "stats", user |-> u, status |-> 200,
                   totalHabits |-> Len(habits),
                   totalWorkouts |->
                       Cardinality({id \in DOMAIN workouts : workouts[id].userId = u}),
                   longestStreak |-> StatsLongestStreak(habits)]
    /\ Handled
    /\ UNCHANGED <<now, workouts, nextId, library, slots, habit>>

\* the clock advances between requests
Tick ==
    /\ now < MaxClock
    /\ now' = now + 1
    /\ UNCHANGED <<workouts, nextId, library, slots, step, habit, res, timeline>>

(***************************************************************************)
(* Workout statistics (GET /analytics/progression, GET /prs, GET /:id).    *)
(* A date is a clock value in ticks, DayTicks to the day.  The calendar    *)
(* covers the years 1969 to 1971, none of them a leap year.                *)
(***************************************************************************)
MonthLengths == <<31, 28, 31, 30, 31, 30, 31, 31, 30, 31, 30, 31>>

GetFullYear(t) == 1970 + ((t \div DayTicks) \div 365)        \* d.getFullYear()
DayOfYear(t) == (t \div DayTicks) % 365                      \* 0 on 1 January

RECURSIVE MonthOfDay(_, _)
\* the month (0 to 11) of the day that is n days after the first day of month m
MonthOfDay(n, m) ==
    IF n < MonthLengths[m + 1] THEN m ELSE MonthOfDay(n - MonthLengths[m + 1], m + 1)

RECURSIVE DaysBefore(_)
\* the days of the year that precede month m (0 to 11)
DaysBefore(m) == IF m = 0 THEN 0 ELSE DaysBefore(m - 1) + MonthLengths[m]

GetMonth(t) == MonthOfDay(DayOfYear(t), 0)                   \* d.getMonth()
GetDate(t) == DayOfYear(t) - DaysBefore(GetMonth(t)) + 1     \* d.getDate()

\* new Date(d.getFullYear(), d.getMonth(), 0): the last day of the month before
LastDayOfPreviousMonth(t) == StartOfDay(t) - GetDate(t) * DayTicks

\* `${getFullYear()}-W${Math.ceil((getDate() + new Date(y, m, 0).getDay() + 1) / 7)}`
WeekKey(t) ==
    [year |-> GetFullYear(t),
     week |-> Ceil(GetDate(t) + GetDay(LastDayOfPreviousMonth(t)) + 1, 7)]

\* exercise.sets.length > 0 ? Math.max(...exercise.sets.map((s) => s.weight)) : 0
MaxWeight(sets) ==
    IF sets = <<>> THEN 0 ELSE Max({sets[i].weight : i \in 1..Len(sets)})

\* exercise.sets.length > 0 ? Math.max(...exercise.sets.map((s) => s.reps)) : 0
MaxReps(sets) ==
    IF sets = <<>> THEN 0 ELSE Max({sets[i].reps : i \in 1..Len(sets)})

TotalVolumeFirstSet(sets) ==
    IF sets = <<>> THEN 0 ELSE Head(sets).reps * Head(sets).weight

RECURSIVE TotalVolume(_)
\* exercise.sets.reduce((sum, set) => sum + set.reps * set.weight, 0)
TotalVolume(sets) ==
    IF sets = <<>> THEN 0
    ELSE Head(sets).reps * Head(sets).weight + TotalVolume(Tail(sets))

RECURSIVE WorkoutVolume(_)
\* workout.exercises.reduce((total, exercise) => total + exerciseVolume, 0)
WorkoutVolume(exercises) ==
    IF exercises = <<>> THEN 0
    ELSE TotalVolume(Head(exercises).sets) + WorkoutVolume(Tail(exercises))

\* One-rep-max estimates are held in thirtieths: the value v stands for v / 30.
\* workoutSchema.methods.estimate1RM and the frontend's calculate1RM
Estimate1RM(weight, reps) ==
    IF reps = 1 THEN weight * 30 ELSE weight * (30 + reps)

\* the progression route, lines 233-240
Estimated1RM(maxWeight, maxReps) ==
    IF maxWeight > 0 /\ maxReps > 0
    THEN IF maxReps = 1 THEN maxWeight * 30 ELSE maxWeight * (30 + maxReps)
    ELSE 0

\* the workouts page: maxWeight > 0 ? calculate1RM(maxWeight, maxReps) : 0
PageEstimated1RM(sets) ==
    LET maxWeight == Max({sets[i].weight : i \in 1..Len(sets)} \cup {0})
        maxReps == Max({sets[i].reps : i \in 1..Len(sets)} \cup {0})
    IN  IF maxWeight > 0 THEN Estimate1RM(maxWeight, maxReps) ELSE 0

\* String.prototype.toLowerCase() on the names of the model
ToLowerCase(name) ==
    CASE name = "Squat" -> "squat"
      [] name = "Bench Press" -> "bench press"
      [] OTHER -> name

\* Workout.find(query).sort({ date: 1 }): the orders in which the documents of
\* ids can come back; documents of equal date come in any order
RECURSIVE SortedByDate(_)
SortedByDate(ids) ==
    IF ids = {} THEN {<<>>}
    ELSE LET first == {i \in ids : \A j \in ids : workouts[i].date <= workouts[j].date}
         IN  UNION {{<<i>> \o rest : rest \in SortedByDate(ids \ {i})} : i \in first}

\* exerciseName && exercise.name.toLowerCase() !== exerciseName.toLowerCase()
\* skips the exercise; "" is an absent exerciseName
Selected(exerciseName, name) ==
    exerciseName = "" \/ ToLowerCase(name) = ToLowerCase(exerciseName)

\* the entry pushed to exerciseHistory[exercise.name], lines 340-346
HistoryEntry(exercise, date) ==
    [name |-> exercise.name, date |-> date,
     maxWeight |-> MaxWeight(exercise.sets),
     maxReps |-> MaxReps(exercise.sets),
     totalVolume |-> TotalVolume(exercise.sets),
     sets |-> Len(exercise.sets)]

\* the entry pushed to exerciseProgress[exercise.name], lines 242-249
ProgressEntry(exercise, date) ==
    [name |-> exercise.name, date |-> date,
     maxWeight |-> MaxWeight(exercise.sets),
     totalVolume |-> TotalVolume(exercise.sets),
     sets |-> Len(exercise.sets),
     maxReps |-> MaxReps(exercise.sets),
     estimated1RM |-> Estimated1RM(MaxWeight(exercise.sets), MaxReps(exercise.sets))]

\* workouts.forEach(workout => workout.exercises.forEach(exercise => ...)):
\* the exercises the loops visit and do not skip, each with its workout's date
RECURSIVE Visit(_, _, _, _)
Visit(order, k, x, exerciseName) ==
    IF k > Len(order) THEN <<>>
    ELSE LET workout == workouts[order[k]]
         IN  IF x > Len(workout.exercises)
             THEN Visit(order, k + 1, 1, exerciseName)
             ELSE (IF Selected(exerciseName, workout.exercises[x].name)
                   THEN <<[exercise |-> workout.exercises[x], date |-> workout.date]>>
                   ELSE <<>>)
                  \o Visit(order, k, x + 1, exerciseName)

\* the entries pushed during the visit, in the order they are pushed
ExerciseHistory(order, exerciseName) ==
    LET visited == Visit(order, 1, 1, exerciseName)
    IN  [i \in 1..Len(visited) |-> HistoryEntry(visited[i].exercise, visited[i].date)]

ExerciseProgress(order, exerciseName) ==
    LET visited == Visit(order, 1, 1, exerciseName)
    IN  [i \in 1..Len(visited) |-> ProgressEntry(visited[i].exercise, visited[i].date)]

\* the object whose key n holds the entries pushed under exercise.name = n
ByName(entries) ==
    [n \in {entries[i].name : i \in 1..Len(entries)} |->
        SelectSeq(entries, LAMBDA e : e.name = n)]

\* workoutVolume of one workout: the volumes of the exercises not skipped
RECURSIVE SelectedVolume(_, _)
SelectedVolume(exercises, exerciseName) ==
    IF exercises = <<>> THEN 0
    ELSE (IF Selected(exerciseName, Head(exercises).name)
          THEN TotalVolume(Head(exercises).sets) ELSE 0)
         + SelectedVolume(Tail(exercises), exerciseName)

\* weeklyVolume[weekKey] = (weeklyVolume[weekKey] ?? 0) + workoutVolume
RECURSIVE WeeklyVolume(_, _, _)
WeeklyVolume(order, k, exerciseName) ==
    IF k = 0 THEN <<>>
    ELSE LET before == WeeklyVolume(order, k - 1, exerciseName)
             workout == workouts[order[k]]
             weekKey == WeekKey(workout.date)
             workoutVolume == SelectedVolume(workout.exercises, exerciseName)
         IN  [w \in DOMAIN before \cup {weekKey} |->
                IF w = weekKey
                THEN (IF w \in DOMAIN before THEN before[w] ELSE 0) + workoutVolume
                ELSE before[w]]

\* parseInt(days) || 90
DaysToFetch(q) == IF q.kind = "int" /\ q.n # 0 THEN q.n ELSE 90

\* { userId, status: 'completed', date: { $gte: startDate } }
ProgressionQuery(u, q) ==
    {id \in DOMAIN workouts :
        /\ workouts[id].userId = u
        /\ workouts[id].status = "completed"
        /\ workouts[id].date >= AddDays(now, 0 - DaysToFetch(q))}

\* { userId, status: 'completed' }
PrsQuery(u) ==
    {id \in DOMAIN workouts :
        workouts[id].userId = u /\ workouts[id].status = "completed"}

\* lines 348-371: prs after the exercise of entry e has been visited
TrackPRsLatest(prs, e) ==
    [n \in DOMAIN prs \cup {e.name} |->
        IF n # e.name THEN prs[n]
        ELSE [maxWeight |-> e.maxWeight, maxReps |-> e.maxReps,
              maxVolume |-> e.totalVolume, maxWeightDate |-> e.date,
              maxRepsDate |-> e.date, maxVolumeDate |-> e.date]]

TrackPRs(prs, e) ==
    [n \in DOMAIN prs \cup {e.name} |->
        IF n # e.name THEN prs[n]
        ELSE IF n \notin DOMAIN prs
        THEN [maxWeight |-> e.maxWeight, maxReps |-> e.maxReps,
              maxVolume |-> e.totalVolume, maxWeightDate |-> e.date,
              maxRepsDate |-> e.date, maxVolumeDate |-> e.date]
        ELSE [maxWeight |-> IF e.maxWeight > prs[n].maxWeight
                            THEN e.maxWeight ELSE prs[n].maxWeight,
              maxWeightDate |-> IF e.maxWeight > prs[n].maxWeight
                                THEN e.date ELSE prs[n].maxWeightDate,
              maxReps |-> IF e.maxReps > prs[n].maxReps
                          THEN e.maxReps ELSE prs[n].maxReps,
              maxRepsDate |-> IF e.maxReps > prs[n].maxReps
                              THEN e.date ELSE prs[n].maxRepsDate,
              maxVolume |-> IF e.totalVolume > prs[n].maxVolume
                            THEN e.totalVolume ELSE prs[n].maxVolume,
              maxVolumeDate |-> IF e.totalVolume > prs[n].maxVolume
                                THEN e.date ELSE prs[n].maxVolumeDate]]

RECURSIVE PersonalRecords(_, _)
\* prs after the first k entries of the visit
PersonalRecords(entries, k) ==
    IF k = 0 THEN <<>> ELSE TrackPRs(PersonalRecords(entries, k - 1), entries[k])

\* GET /analytics/progression; q is the days query parameter
Progression(u, exerciseName, q) ==
    /\ \E order \in SortedByDate(ProgressionQuery(u, q)) :
          res' = [op |-> "progression", user |-> u, status |-> 200,
                  exerciseName |-> exerciseName, days |-> q, order |-> order,
                  exerciseProgress |-> ByName(ExerciseProgress(order, exerciseName)),
                  volumeTrend |->
                      [k \in 1..Len(order) |->
                          [date |-> workouts[order[k]].date,
                           volume |-> SelectedVolume(workouts[order[k]].exercises,
                                                     exerciseName),
                           duration |-> workouts[order[k]].duration]],
                  weeklyVolume |-> WeeklyVolume(order, Len(order), exerciseName)]
    /\ Handled /\ UNCHANGED <<now, workouts, nextId, library, slots, habit>>

\* GET /prs
Prs(u, exerciseName) ==
    /\ \E order \in SortedByDate(PrsQuery(u)) :
          LET entries == ExerciseHistory(order, exerciseName)
          IN  res' = [op |-> "prs", user |-> u, status |-> 200,
                      exerciseName |-> exerciseName, order |-> order,
                      prs |-> PersonalRecords(entries, Len(entries)),
                      exerciseHistory |-> ByName(entries)]
    /\ Handled /\ UNCHANGED <<now, workouts, nextId, library, slots, habit>>

\* GET /:id
GetWorkout(u, id) ==
    /\ IF ~Owned(u, id)
       THEN res' = [op |-> "get", user |-> u, id |-> id, status |-> 404]
       ELSE res' = [op |-> "get", user |-> u, id |-> id, status |-> 200,
                    workout |-> workouts[id],
                    totalVolume |-> WorkoutVolume(workouts[id].exercises)]
    /\ Handled /\ UNCHANGED <<now, workouts, nextId, library, slots, habit>>

\* the requests of the statistics specification
StatsNow == 40 * DayTicks                  \* 10 February 1970, 00:00
Jan5 == 4 * DayTicks
Jan6 == 5 * DayTicks + 1
Feb3 == 33 * DayTicks
SquatLight == <<[name |-> "Squat", sets |-> <<[reps |-> 2, weight |-> 100]>>]>>
SquatHeavy == <<[name |-> "Squat", sets |-> <<[reps |-> 1, weight |-> 110]>>]>>
SquatOther == <<[name |-> "Squat", sets |-> <<[reps |-> 3, weight |-> 120]>>]>>
BenchDay ==
    <<[name |-> "Bench Press",
       sets |-> <<[reps |-> 10, weight |-> 80], [reps |-> 8, weight |-> 85]>>],
      [name |-> "Squat", sets |-> <<[reps |-> 0, weight |-> 100]>>]>>
StatsBodies ==
    {<<"u1", Jan5, SquatLight>>, <<"u1", Jan6, SquatHeavy>>,
     <<"u1", Feb3, SquatLight>>, <<"u1", Feb3, BenchDay>>,
     <<"u2", Jan6, SquatOther>>}
StatsNames == {"", "squat"}
StatsDays == {DaysAbsent, DaysInt(30)}

(***************************************************************************)
(* Dashboard page (frontend/app/dashboard/page.tsx).  The page's state is  *)
(* held in res: stats (null until fetched), the number of habits, loading, *)
(* and the achievements the last render computed.                          *)
(***************************************************************************)
\* `stats?.field ?? 0 >= n` parses as `stats?.field ?? (0 >= n)`: its truthiness
Unlocked(stats, field, n) ==
    IF stats.defined THEN stats.v[field] # 0 ELSE 0 >= n

\* lines 175-180: the texts of the achievements pushed
Achievements(stats, habitsLength) ==
    {a \in {"7 Day Streak", "30 Day Streak", "10 Workouts", "50 Workouts", "5 Habits"} :
        \/ a = "7 Day Streak" /\ Unlocked(stats, "longestStreak", 7)
        \/ a = "30 Day Streak" /\ Unlocked(stats, "longestStreak", 30)
        \/ a = "10 Workouts" /\ Unlocked(stats, "totalWorkouts", 10)
        \/ a = "50 Workouts" /\ Unlocked(stats, "totalWorkouts", 50)
        \/ a = "5 Habits" /\ habitsLength >= 5}

\* the page as rendered with the given state
Dashboard(stats, habitsLength, loading) ==
    [op |-> "dashboard", stats |-> stats, habits |-> habitsLength,
     loading |-> loading, achievements |-> Achievements(stats, habitsLength)]

\* the responses of GET /api/user/stats and the lengths of GET /api/habits
StatsResponses ==
    [totalHabits : {0}, totalWorkouts : {0, 1, 9, 10, 49, 50},
     longestStreak : {0, 1, 6, 7, 29, 30}]
HabitCounts == {0, 4, 5, 6}

\* fetchData, lines 60-75: the three requests succeed
FetchData(statsRes, habitsLength) ==
    /\ res.op = "dashboard" /\ res.loading
    /\ res' = Dashboard(Def([statsRes EXCEPT !.totalHabits = habitsLength]),
                        habitsLength, FALSE)
    /\ UNCHANGED <<now, workouts, nextId, library, slots, step, habit, timeline>>

\* fetchData, lines 70-74: a request fails and the state keeps its initial values
FetchFailed ==
    /\ res.op = "dashboard" /\ res.loading
    /\ res' = Dashboard(res.stats, res.habits, FALSE)
    /\ UNCHANGED <<now, workouts, nextId, library, slots, step, habit, timeline>>

Init ==
    /\ now = 0
    /\ timeline = <<>>
    /\ workouts = <<>>
    /\ nextId = 1
    /\ library = <<>>
    /\ slots = [r \in 1..MaxReqs |-> IdleSlot]
    /\ step = 0
    /\ habit = NoHabit
    /\ res = NoRes

Next ==
    \/ \E u \in Users : Start(u)
    \/ \E u \in Users, id \in Ids : Pause(u, id)
    \/ \E u \in Users, id \in Ids : Resume(u, id)
    \/ \E u \in Users, id \in Ids : End(u, id)
    \/ \E u \in Users, e \in BodyExercises, d \in Optional(BodyDurations) :
            Create(u, Undefined, e, d, 0)
    \/ \E u \in Users, id \in Ids, n \in Names : AddExercise(u, id, n, 0)
    \/ \E u \in Users, id \in Ids, x \in 0..1, rw \in BodyRepsWeight :
            AddSet(u, id, x, rw[1], rw[2])
    \/ \E u \in Users, id \in Ids, e \in Optional(BodyExercises),
          d \in Optional(BodyDurations), t \in Optional(BodyDates) :
            Update(u, id, t, e, d)
    \/ \E u \in Users, id \in Ids : Delete(u, id)

Spec == Init /\ [][Next]_vars

NextRace ==
    \/ \E r \in 1..MaxReqs, u \in Users : StartCheck(r, u)
    \/ \E r \in 1..MaxReqs : StartInsert(r)

SpecRace == Init /\ [][NextRace]_vars

\* a habit has been created (POST /), with no completions yet
InitHabit ==
    /\ now = 0
    /\ timeline = <<>>
    /\ workouts = <<>>
    /\ nextId = 1
    /\ library = <<>>
    /\ slots = [r \in 1..MaxReqs |-> IdleSlot]
    /\ step = 0
    /\ habit \in HabitsCreated
    /\ res = NoRes

NextHabit ==
    \/ Tick
    \/ \E d \in DateInputs, v \in ValueInputs : Complete("u1", d, v)
    \/ \E d \in DateInputs : Uncomplete("u1", d)
    \/ Analytics("u1")
    \/ UserStats("u1")

SpecHabit == InitHabit /\ [][NextHabit]_vars

\* the workouts collection is empty and the clock stands at StatsNow
InitStats ==
    /\ now = StatsNow
    /\ timeline = <<>>
    /\ workouts = <<>>
    /\ nextId = 1
    /\ library = <<>>
    /\ slots = [r \in 1..MaxReqs |-> IdleSlot]
    /\ step = 0
    /\ habit = NoHabit
    /\ res = NoRes

NextStats ==
    \/ \E b \in StatsBodies : Create(b[1], Def(b[2]), b[3], Undefined, 0)
    \/ Start("u1")
    \/ \E id \in Ids : AddExercise("u1", id, "Squat", 0)
    \/ \E id \in Ids : AddSet("u1", id, 0, 3, 120)
    \/ \E id \in Ids : End("u1", id)
    \/ \E u \in Users, n \in StatsNames, q \in StatsDays : Progression(u, n, q)
    \/ \E u \in Users, n \in StatsNames : Prs(u, n)
    \/ \E u \in Users, id \in Ids : GetWorkout(u, id)

SpecStats == InitStats /\ [][NextStats]_vars

\* user u1 has created a habit; there are no workouts yet
InitOwner ==
    /\ now = 0
    /\ timeline = <<>>
    /\ workouts = <<>>
    /\ nextId = 1
    /\ library = <<>>
    /\ slots = [r \in 1..MaxReqs |-> IdleSlot]
    /\ step = 0
    /\ habit \in HabitsCreated
    /\ res = NoRes

\* the requests that name a workout or a habit, sent by either user
NextOwner ==
    \/ \E u \in Users : Start(u)
    \/ \E u \in Users, id \in Ids : Pause(u, id)
    \/ \E u \in Users, id \in Ids : Resume(u, id)
    \/ \E u \in Users, id \in Ids : End(u, id)
    \/ \E u \in Users, id \in Ids : AddExercise(u, id, "Squat", 0)
    \/ \E u \in Users, id \in Ids : AddSet(u, id, 0, 1, 1)
    \/ \E u \in Users, id \in Ids : Update(u, id, Undefined, Undefined, Def(1))
    \/ \E u \in Users, id \in Ids : Delete(u, id)
    \/ \E u \in Users, id \in Ids : GetWorkout(u, id)
    \/ \E u \in Users : Complete(u, DateAbsent, Undefined)
    \/ \E u \in Users : Uncomplete(u, DateAbsent)
    \/ \E u \in Users : Analytics(u)
    \/ \E u \in Users : UpdateHabit(u, Def(DayTicks))
    \/ \E u \in Users : DeleteHabit(u)

SpecOwner == InitOwner /\ [][NextOwner]_vars

\* workout requests one of whose datastore writes may throw
NextFail ==
    \/ \E u \in Users : Start(u)
    \/ \E u \in Users, f \in 0..3 : Create(u, Undefined, BenchDay, Undefined, f)
    \/ \E u \in Users, id \in Ids, n \in Names, f \in 0..2 :
            AddExercise(u, id, n, f)
    \/ \E u \in Users, id \in Ids : End(u, id)

SpecFail == Init /\ [][NextFail]_vars

\* the dashboard page is mounted: useState(null), useState([]), useState(true)
InitDash ==
    /\ now = 0
    /\ timeline = <<>>
    /\ workouts = <<>>
    /\ nextId = 1
    /\ library = <<>>
    /\ slots = [r \in 1..MaxReqs |-> IdleSlot]
    /\ step = 0
    /\ habit = NoHabit
    /\ res = Dashboard(Undefined, 0, TRUE)

NextDash ==
    \/ \E s \in StatsResponses, h \in HabitCounts : FetchData(s, h)
    \/ FetchFailed

SpecDash == InitDash /\ [][NextDash]_vars

(***************************************************************************)
(* Claims about the workout routes.                                        *)
(***************************************************************************)
\* the workouts of user u that are in progress
InProgress(u) ==
    {id \in DOMAIN workouts :
        workouts[id].userId = u /\ workouts[id].status \in {"active", "paused"}}

(***************************************************************************)
(* C1: with workout requests handled one at a time (start, pause, resume,  *)
(* end, manual create, update, add exercise, add set, delete, by any       *)
(* users), every user has at most one workout whose status is active or    *)
(* paused.                                                                 *)
(***************************************************************************)
C1_OneActivePerUser ==
    \A u \in Users : Cardinality(InProgress(u)) <= 1

\* a user holds a paused workout and a start of that user has been rejected
C1_Witness ==
    /\ res.op = "start" /\ res.status = 400
    /\ \E id \in DOMAIN workouts :
          workouts[id].userId = res.user /\ workouts[id].status = "paused"

(***************************************************************************)
(* C2: the check and the insert of start are separate datastore steps with *)
(* nothing that makes the pair atomic or the in-progress workout unique:   *)
(* when two start requests of one user both run the check before either    *)
(* inserts, both are answered 201 and the user has two active workouts.    *)
(***************************************************************************)
Raced(r1, r2) ==
    /\ r1 # r2
    /\ slots[r1].pc = "done" /\ slots[r2].pc = "done"
    /\ slots[r1].user = slots[r2].user
    /\ slots[r1].insertedAt > 0 /\ slots[r2].insertedAt > 0
    /\ slots[r1].checkedAt < slots[r2].insertedAt
    /\ slots[r2].checkedAt < slots[r1].insertedAt

C2_RaceBothSucceed ==
    \A r1, r2 \in 1..MaxReqs :
        Raced(r1, r2) =>
            /\ slots[r1].status = 201 /\ slots[r2].status = 201
            /\ slots[r1].created # slots[r2].created
            /\ {slots[r1].created, slots[r2].created} \subseteq DOMAIN workouts
            /\ \A id \in {slots[r1].created, slots[r2].created} :
                    /\ workouts[id].userId = slots[r1].user
                    /\ workouts[id].status = "active"

\* two start requests of one user have raced and that user has two active workouts
C2_Witness ==
    \E r1, r2 \in 1..MaxReqs :
        /\ Raced(r1, r2)
        /\ Cardinality({id \in DOMAIN workouts :
                            /\ workouts[id].userId = slots[r1].user
                            /\ workouts[id].status = "active"}) = 2

(***************************************************************************)
(* C3: a start request of a user who already has an active or paused       *)
(* workout is answered 400 with activeWorkoutId the id of that workout; no *)
(* workout is created and no stored workout is changed.                    *)
(***************************************************************************)
C3_StartRejected ==
    [][\A u \in Users :
          (res'.op = "start" /\ res'.user = u /\ InProgress(u) # {}) =>
              /\ res'.status = 400
              /\ res'.activeWorkoutId \in InProgress(u)
              /\ workouts' = workouts
              /\ nextId' = nextId]_vars

\* a start has been rejected with the id of the caller's active workout
C3_Witness ==
    /\ res.op = "start" /\ res.status = 400
    /\ res.activeWorkoutId \in DOMAIN workouts
    /\ workouts[res.activeWorkoutId].userId = res.user
    /\ workouts[res.activeWorkoutId].status = "active"
    /\ Cardinality(DOMAIN workouts) = 1

(***************************************************************************)
(* Claims about the habit routes.                                          *)
(***************************************************************************)
\* the calendar day of a point in time, and today
DayOf(t) == t \div DayTicks
Today == DayOf(now)

\* the records of the habit dated on calendar day d
RecordsOn(h, d) == {i \in 1..Len(h.completions) : DayOf(h.completions[i].date) = d}

\* the calendar days for which the habit holds a completed record
CompletedDays ==
    {DayOf(habit.completions[i].date) :
        i \in {j \in 1..Len(habit.completions) : habit.completions[j].completed}}

\* the length of the run of consecutive completed days that ends on day m
RunEndingOn(m) ==
    Cardinality({d \in CompletedDays : d <= m /\ \A e \in d..m : e \in CompletedDays})

\* a step that handles an analytics request of an existing habit
AnalyticsStep == step' # step /\ res'.op = "analytics" /\ res'.status = 200

(***************************************************************************)
(* C4: with complete and uncomplete requests handled one at a time, with   *)
(* any dates and values, the habit holds at most one completion record per *)
(* calendar day.                                                           *)
(***************************************************************************)
C4_OneRecordPerDay ==
    habit.exists =>
        \A i, j \in 1..Len(habit.completions) :
            i # j => DayOf(habit.completions[i].date) # DayOf(habit.completions[j].date)

\* a complete has found the record of its day among several records, and
\* an earlier uncomplete has left a record that is not completed
C4_Witness ==
    /\ res.op = "complete" /\ res.status = 200 /\ res.existing
    /\ Len(habit.completions) >= 2
    /\ \E i \in 1..Len(habit.completions) : ~habit.completions[i].completed

(***************************************************************************)
(* C5: complete is idempotent per habit and date: completing twice with    *)
(* the same date and value leaves exactly one record for that date and the *)
(* same stored habit as completing once; the second call changes the       *)
(* existing record in place and inserts nothing.                           *)
(***************************************************************************)
C5_CompleteIdempotent ==
    habit.exists =>
        \A d \in DateInputs \ {DateInvalid}, v \in ValueInputs :
            LET once == CompleteDoc(habit, d, v)
                twice == CompleteDoc(once, d, v)
            IN  /\ twice = once
                /\ Len(twice.completions) = Len(once.completions)
                /\ Cardinality(RecordsOn(twice, DayOf(CompletionDate(d)))) = 1

\* the second of two requests was a complete that found the record the first
\* one had inserted, and the habit holds that one record
C5_Witness ==
    /\ step = 2
    /\ res.op = "complete" /\ res.status = 200 /\ res.existing
    /\ Len(habit.completions) = 1
    /\ habit.completions[1].completed

(***************************************************************************)
(* C6: currentStreak is 0 unless the most recent completed record is dated *)
(* today or yesterday; otherwise it is the number of consecutive calendar  *)
(* days with a completed record, counted back from that record to the      *)
(* first day without one.  A single completion today or yesterday gives 1, *)
(* a habit whose only completion is two days ago gives 0.                  *)
(***************************************************************************)
ExpectedCurrentStreak ==
    IF CompletedDays = {} THEN 0
    ELSE LET last == Max(CompletedDays)
         IN  IF last = Today \/ last = Today - 1 THEN RunEndingOn(last) ELSE 0

C6_CurrentStreak ==
    [][AnalyticsStep =>
          /\ res'.currentStreak = ExpectedCurrentStreak
          /\ CompletedDays \in {{Today}, {Today - 1}} => res'.currentStreak = 1
          /\ CompletedDays = {Today - 2} => res'.currentStreak = 0]_vars

\* analytics has reported a streak of two days that ends yesterday
C6_Witness ==
    /\ res.op = "analytics" /\ res.status = 200
    /\ res.currentStreak = 2
    /\ CompletedDays = {Today - 1, Today - 2}

(***************************************************************************)
(* C7: longestStreak is the maximum length of a run of consecutive         *)
(* calendar days with completed records over the whole history, whatever   *)
(* the days window is; for completions on exactly D, D-1, D-2 it is 3.     *)
(***************************************************************************)
ExpectedLongestStreak ==
    IF CompletedDays = {} THEN 0
    ELSE Max({RunEndingOn(m) : m \in CompletedDays})

C7_LongestStreak ==
    [][AnalyticsStep =>
          /\ res'.longestStreak = ExpectedLongestStreak
          /\ (\E D \in CompletedDays : CompletedDays = {D, D - 1, D - 2})
                => res'.longestStreak = 3]_vars

\* analytics has reported a longest streak of three days
C7_Witness ==
    /\ res.op = "analytics" /\ res.status = 200
    /\ res.longestStreak = 3
    /\ Cardinality(CompletedDays) = 3

(***************************************************************************)
(* C8: for a habit with no completion records the analytics request        *)
(* succeeds and returns completionRate 0, currentStreak 0, longestStreak 0 *)
(* and a heatmap of 30 entries that are all not completed.                 *)
(***************************************************************************)
C8_NoCompletions ==
    [][(step' # step /\ res'.op = "analytics" /\ habit.exists
            /\ habit.completions = <<>>) =>
          /\ res'.status = 200
          /\ res'.completionRate = 0
          /\ res'.currentStreak = 0
          /\ res'.longestStreak = 0
          /\ Len(res'.heatmapData) = 30
          /\ \A k \in 1..Len(res'.heatmapData) : ~res'.heatmapData[k].completed]_vars

\* analytics has answered for a habit without completion records
C8_Witness ==
    /\ res.op = "analytics" /\ res.status = 200
    /\ habit.exists /\ habit.completions = <<>>
    /\ Len(res.heatmapData) = 30

(***************************************************************************)
(* C9: completionRate is 100 times the number of completed records dated   *)
(* inside the lookback window, divided by the number of days elapsed since *)
(* the habit's start date that lie inside the window: a habit whose start  *)
(* date falls inside the window is measured over the days since it started.*)
(***************************************************************************)
\* the rate of the claim for the days parameter q, in hundredths of a percent
ClaimedRate(q) ==
    IF q.kind = "nan" THEN 0
    ELSE LET days == IF q.kind = "absent" THEN 30 ELSE q.n
             windowStart == (Today - days) * DayTicks
             habitStart == DayOf(habit.startDate) * DayTicks
             from == IF habitStart > windowStart THEN habitStart ELSE windowStart
             elapsed == Ceil(now - from, DayTicks)
             completedInWindow ==
                Cardinality({i \in 1..Len(habit.completions) :
                                /\ habit.completions[i].completed
                                /\ DayOf(habit.completions[i].date) >= Today - days})
         IN  IF elapsed > 0 THEN Round(completedInWindow * 10000, elapsed) ELSE 0

C9_RateSinceHabitStart ==
    [][AnalyticsStep =>
          \E q \in DaysInputs : res'.completionRate = ClaimedRate(q)]_vars

(***************************************************************************)
(* C10: heatmapData has exactly 30 entries, one for each of the 30         *)
(* consecutive calendar days ending today, whatever the days parameter is; *)
(* an entry is flagged completed exactly when the habit has a completed    *)
(* record for that day, and then carries that record's value.              *)
(***************************************************************************)
C10_Heatmap ==
    [][AnalyticsStep =>
          /\ Len(res'.heatmapData) = 30
          /\ \A k \in 1..Len(res'.heatmapData) :
                LET entry == res'.heatmapData[k]
                    day == Today - (30 - k)
                IN  /\ entry.date = day
                    /\ entry.completed = (day \in CompletedDays)
                    /\ entry.completed =>
                          \E i \in RecordsOn(habit, day) :
                             /\ habit.completions[i].completed
                             /\ entry.value = habit.completions[i].value]_vars

\* analytics has returned a heatmap with a completed entry that carries a
\* value, for a habit that also holds a record that is not completed
C10_Witness ==
    /\ res.op = "analytics" /\ res.status = 200
    /\ \E k \in 1..Len(res.heatmapData) :
          res.heatmapData[k].completed /\ res.heatmapData[k].value = 2
    /\ \E i \in 1..Len(habit.completions) : ~habit.completions[i].completed

(***************************************************************************)
(* Claims about the workout statistics.                                    *)
(***************************************************************************)
\* the exercises a statistics response was computed from, in visiting order
VisitedOf(r) == Visit(r.order, 1, 1, r.exerciseName)
Named(visited, n) == SelectSeq(visited, LAMBDA v : v.exercise.name = n)

RECURSIVE SumRepsWeight(_, _)
\* the sum of reps * weight over the first n sets
SumRepsWeight(sets, n) ==
    IF n = 0 THEN 0 ELSE SumRepsWeight(sets, n - 1) + sets[n].reps * sets[n].weight

RECURSIVE SumVolumes(_, _)
\* the sum over the first n exercises of the exercise's sum of reps * weight
SumVolumes(exercises, n) ==
    IF n = 0 THEN 0
    ELSE SumVolumes(exercises, n - 1)
         + SumRepsWeight(exercises[n].sets, Len(exercises[n].sets))

\* entries (an object keyed by exercise name) holds one entry per visited
\* exercise, in visiting order, and P(entry, exercise) holds of each pair
EachEntry(entries, visited, P(_, _)) ==
    /\ DOMAIN entries = {visited[i].exercise.name : i \in 1..Len(visited)}
    /\ \A n \in DOMAIN entries :
          /\ Len(entries[n]) = Len(Named(visited, n))
          /\ \A i \in 1..Len(entries[n]) :
                P(entries[n][i], Named(visited, n)[i].exercise)

VolumeIsSum(entry, exercise) ==
    entry.totalVolume = SumRepsWeight(exercise.sets, Len(exercise.sets))

(***************************************************************************)
(* C11: the totalVolume of every entry of the progression output and of    *)
(* the PR output's history is the sum of reps * weight over the sets of    *)
(* the exercise occurrence the entry stands for, and the totalVolume of a  *)
(* workout returned by GET /:id is the sum of its exercises' volumes; the  *)
(* sets (10, 80) and (8, 85) give 1480.                                    *)
(***************************************************************************)
C11_VolumeIsSum ==
    /\ res.op = "progression" =>
          EachEntry(res.exerciseProgress, VisitedOf(res), VolumeIsSum)
    /\ res.op = "prs" =>
          EachEntry(res.exerciseHistory, VisitedOf(res), VolumeIsSum)
    /\ res.op = "get" /\ res.status = 200 =>
          res.totalVolume = SumVolumes(res.workout.exercises,
                                       Len(res.workout.exercises))

\* a progression output holds the entry of the sets (10, 80), (8, 85): 1480
C11_Witness ==
    /\ res.op = "progression"
    /\ "Bench Press" \in DOMAIN res.exerciseProgress
    /\ \E i \in 1..Len(res.exerciseProgress["Bench Press"]) :
          /\ res.exerciseProgress["Bench Press"][i].totalVolume = 1480
          /\ res.exerciseProgress["Bench Press"][i].sets = 2

\* maxWeight when maxReps is 1, else maxWeight * (1 + maxReps / 30), in thirtieths
Epley(maxWeight, maxReps) ==
    IF maxReps = 1 THEN 30 * maxWeight ELSE maxWeight * 30 + maxWeight * maxReps

SetsMaxWeight(sets) ==
    IF sets = <<>> THEN 0
    ELSE CHOOSE w \in {sets[i].weight : i \in 1..Len(sets)} :
            \A i \in 1..Len(sets) : sets[i].weight <= w
SetsMaxReps(sets) ==
    IF sets = <<>> THEN 0
    ELSE CHOOSE r \in {sets[i].reps : i \in 1..Len(sets)} :
            \A i \in 1..Len(sets) : sets[i].reps <= r

OneRepMaxIsEpley(entry, exercise) ==
    entry.estimated1RM = Epley(SetsMaxWeight(exercise.sets), SetsMaxReps(exercise.sets))

(***************************************************************************)
(* C12: the estimated one-rep max of an exercise occurrence is maxWeight   *)
(* when maxReps is 1 and maxWeight * (1 + maxReps / 30) for every other    *)
(* maxReps, with maxWeight and maxReps the maxima over the occurrence's    *)
(* sets, in the progression output, in Workout.estimate1RM and in the      *)
(* workouts page.                                                          *)
(***************************************************************************)
C12_OneRepMaxEverywhere ==
    /\ res.op = "progression" =>
          EachEntry(res.exerciseProgress, VisitedOf(res), OneRepMaxIsEpley)
    /\ \A id \in DOMAIN workouts :
          \A x \in 1..Len(workouts[id].exercises) :
             LET sets == workouts[id].exercises[x].sets
             IN  /\ Estimate1RM(SetsMaxWeight(sets), SetsMaxReps(sets))
                        = Epley(SetsMaxWeight(sets), SetsMaxReps(sets))
                 /\ PageEstimated1RM(sets)
                        = Epley(SetsMaxWeight(sets), SetsMaxReps(sets))

BenchExample(entry, exercise) ==
    exercise = BenchDay[1] =>
        /\ entry.estimated1RM = 85 * (30 + 8)
        /\ Round(entry.estimated1RM * 100, 30) = 10767

(***************************************************************************)
(* C13: for a completed workout whose exercise "Bench Press" has the sets  *)
(* (10 reps, 80) and (8 reps, 85), the progression entry of the occurrence *)
(* reports estimated1RM = 85 * (1 + 8 / 30), 107.67 to two decimals.       *)
(***************************************************************************)
C13_BenchPressExample ==
    res.op = "progression" =>
        EachEntry(res.exerciseProgress, VisitedOf(res), BenchExample)

\* the occurrences <<workout id, exercise index>> of exercise name n in the
\* completed workouts of user u
CompletedOccurrences(u, n) ==
    {o \in UNION {{<<id, x>> : x \in 1..Len(workouts[id].exercises)} :
                    id \in DOMAIN workouts} :
        /\ workouts[o[1]].userId = u
        /\ workouts[o[1]].status = "completed"
        /\ workouts[o[1]].exercises[o[2]].name = n}

\* the exercise names a PR request of user u with filter f reports
ReportedNames(u, f) ==
    {n \in {"Squat", "Bench Press"} :
        /\ CompletedOccurrences(u, n) # {}
        /\ (f = "" \/ ToLowerCase(n) = ToLowerCase(f))}

OccWeight(o) == SetsMaxWeight(workouts[o[1]].exercises[o[2]].sets)
OccReps(o) == SetsMaxReps(workouts[o[1]].exercises[o[2]].sets)
OccVolume(o) ==
    SumRepsWeight(workouts[o[1]].exercises[o[2]].sets,
                  Len(workouts[o[1]].exercises[o[2]].sets))

\* value is the greatest V over the occurrences and date is the date of a
\* workout whose occurrence has that V
IsRecord(occurrences, V(_), value, date) ==
    /\ \A o \in occurrences : V(o) <= value
    /\ \E o \in occurrences : V(o) = value /\ workouts[o[1]].date = date

IsLatestRecord(occurrences, V(_), date) ==
    \E o \in occurrences :
        /\ \A p \in occurrences : V(p) <= V(o)
        /\ workouts[o[1]].date = date
        /\ \A p \in occurrences : V(p) = V(o) => workouts[p[1]].date <= date

(***************************************************************************)
(* C15: a later workout breaks the record of a dimension (weight, reps or  *)
(* volume) whenever its value is greater than or equal to the stored       *)
(* maximum, and the stored value and date are then the later workout's:    *)
(* in the PR output every dimension carries the date of the latest         *)
(* workout that reached its maximum, each dimension on its own.            *)
(***************************************************************************)
C15_EqualBreaksRecord ==
    res.op = "prs" =>
        \A n \in DOMAIN res.prs :
            LET occ == CompletedOccurrences(res.user, n)
            IN  /\ IsLatestRecord(occ, OccWeight, res.prs[n].maxWeightDate)
                /\ IsLatestRecord(occ, OccReps, res.prs[n].maxRepsDate)
                /\ IsLatestRecord(occ, OccVolume, res.prs[n].maxVolumeDate)

\* the calendar week (Sunday to Saturday) of a date, counted from the epoch
CalendarWeek(t) == ((t \div DayTicks) + EpochWeekday) \div 7

RECURSIVE SumOver(_, _)
\* the sum of f over the set S of its arguments
SumOver(f, S) ==
    IF S = {} THEN 0
    ELSE LET x == CHOOSE y \in S : TRUE IN f[x] + SumOver(f, S \ {x})

(***************************************************************************)
(* C16: in the weekly volume totals of the progression output the volume   *)
(* of every selected workout is added to exactly one week bucket, and the  *)
(* workouts of one bucket all fall in one and the same calendar week of    *)
(* one year: workouts of different weeks never share a bucket.             *)
(***************************************************************************)
C16_WeekBuckets ==
    res.op = "progression" =>
        LET volume == [k \in 1..Len(res.order) |-> res.volumeTrend[k].volume]
            bucket == [k \in 1..Len(res.order) |-> WeekKey(workouts[res.order[k]].date)]
        IN  /\ DOMAIN res.weeklyVolume = {bucket[k] : k \in 1..Len(res.order)}
            /\ \A w \in DOMAIN res.weeklyVolume :
                  res.weeklyVolume[w] =
                      SumOver(volume, {k \in 1..Len(res.order) : bucket[k] = w})
            /\ \A j, k \in 1..Len(res.order) :
                  bucket[j] = bucket[k] =>
                      /\ CalendarWeek(workouts[res.order[j]].date)
                            = CalendarWeek(workouts[res.order[k]].date)
                      /\ GetFullYear(workouts[res.order[j]].date)
                            = GetFullYear(workouts[res.order[k]].date)

(***************************************************************************)
(* Claims about ownership and failures.                                    *)
(***************************************************************************)
\* the operations whose request names a workout, and those that name the habit
WorkoutOps ==
    {"get", "update", "delete", "pause", "resume", "end", "addExercise", "addSet"}
HabitOps == {"updateHabit", "deleteHabit", "complete", "uncomplete", "analytics"}

\* the step handles a request of a user who does not own the workout it names
ForeignWorkoutRequest ==
    /\ step' # step /\ res'.op \in WorkoutOps
    /\ res'.id \in DOMAIN workouts
    /\ workouts[res'.id].userId # res'.user

\* the step handles a request of a user who does not own the habit
ForeignHabitRequest ==
    /\ step' # step /\ res'.op \in HabitOps
    /\ habit.exists /\ habit.userId # res'.user

(***************************************************************************)
(* C17: a read, update, delete, complete, uncomplete, pause, resume, end,  *)
(* add-exercise or add-set request that names a workout or habit the       *)
(* caller does not own is answered 404 with nothing of the record in the   *)
(* response and leaves the record as it was; a workout or habit changes    *)
(* or disappears only in a request of its owner.                           *)
(***************************************************************************)
C17_OwnerOnly ==
    [][/\ ForeignWorkoutRequest =>
            /\ res'.status = 404
            /\ DOMAIN res' = {"op", "user", "id", "status"}
            /\ workouts' = workouts
       /\ ForeignHabitRequest =>
            /\ res'.status = 404
            /\ DOMAIN res' = {"op", "user", "status"}
            /\ habit' = habit
       /\ \A id \in DOMAIN workouts :
            (id \notin DOMAIN workouts' \/ workouts'[id] # workouts[id])
                => res'.user = workouts[id].userId
       /\ (habit.exists /\ habit' # habit) => res'.user = habit.userId]_vars

\* a user has been refused the update of another user's completed workout, with
\* the habit completed by its owner
C17_Witness ==
    /\ res.op = "update" /\ res.status = 404
    /\ res.id \in DOMAIN workouts
    /\ workouts[res.id].userId # res.user
    /\ workouts[res.id].status = "completed"
    /\ habit.exists /\ habit.completions # <<>>

(***************************************************************************)
(* C18: every request performs at most one write to the datastore, so no   *)
(* request fails part-way: a request answered with a server error (500)    *)
(* has persisted none of its changes.                                      *)
(***************************************************************************)
C18_NoPartialFailure ==
    [][(step' # step /\ res'.status = 500) =>
            workouts' = workouts /\ library' = library /\ habit' = habit]_vars

(***************************************************************************)
(* C19: the longestStreak of the user stats endpoint is the longest run of *)
(* consecutive calendar days with completed records in any of the user's   *)
(* habits: the greatest longestStreak that habit analytics reports for a   *)
(* habit of the user.                                                      *)
(***************************************************************************)
C19_StatsLongestStreak ==
    [][(step' # step /\ res'.op = "stats" /\ habit.exists
            /\ habit.userId = res'.user)
          => res'.longestStreak = ExpectedLongestStreak]_vars

(***************************************************************************)
(* C20: the dashboard lists an achievement only when its threshold is met: *)
(* '7 Day Streak' only if longestStreak >= 7, '30 Day Streak' only if      *)
(* longestStreak >= 30, '10 Workouts' only if totalWorkouts >= 10,         *)
(* '50 Workouts' only if totalWorkouts >= 50, '5 Habits' only if the user  *)
(* has at least 5 habits.                                                  *)
(***************************************************************************)
C20_AchievementThresholds ==
    (res.op = "dashboard" /\ ~res.loading) =>
        /\ "7 Day Streak" \in res.achievements =>
                res.stats.defined /\ res.stats.v.longestStreak >= 7
        /\ "30 Day Streak" \in res.achievements =>
                res.stats.defined /\ res.stats.v.longestStreak >= 30
        /\ "10 Workouts" \in res.achievements =>
                res.stats.defined /\ res.stats.v.totalWorkouts >= 10
        /\ "50 Workouts" \in res.achievements =>
                res.stats.defined /\ res.stats.v.totalWorkouts >= 50
        /\ "5 Habits" \in res.achievements => res.habits >= 5

(***************************************************************************)
(* The exercise library (SpecLibrary): the create and add-exercise routes  *)
(* upsert into one exerciselibraries collection, GET /exercises/library    *)
(* reads it.  In SpecLibrary user u1 logs workouts and adds exercises and  *)
(* user u2 only reads.                                                     *)
(***************************************************************************)
LibraryLimit == 50      \* .limit(50)

\* the names of the model in the order of the sort { name: 1 }
Alphabetical == <<"Bench Press", "Squat">>
NameRank(name) == CHOOSE i \in 1..Len(Alphabetical) : Alphabetical[i] = name

\* query.name = { $regex: search, $options: 'i' }; of the names and search terms
\* of the model a name contains the term exactly when the two are equal
MatchesSearch(search, name) ==
    search = "" \/ ToLowerCase(name) = ToLowerCase(search)

\* .sort({ usageCount: -1, name: 1 }) of the documents named in names
RECURSIVE SortLibrary(_, _)
SortLibrary(lib, names) ==
    IF names = {} THEN <<>>
    ELSE LET first == CHOOSE a \in names : \A b \in names \ {a} :
                        \/ lib[a].usageCount > lib[b].usageCount
                        \/ /\ lib[a].usageCount = lib[b].usageCount
                           /\ NameRank(a) < NameRank(b)
         IN  <<[name |-> first, usageCount |-> lib[first].usageCount]>>
                \o SortLibrary(lib, names \ {first})

\* ExerciseLibrary.find(query).sort(...).limit(50).select(...), lines 296-300
LibraryFind(lib, search) ==
    LET found == SortLibrary(lib, {n \in DOMAIN lib : MatchesSearch(search, n)})
    IN  SubSeq(found, 1, Min({Len(found), LibraryLimit}))

\* GET /exercises/library
ExerciseLibraryGet(u, search) ==
    /\ res' = [op |-> "library", user |-> u, status |-> 200, search |-> search,
               exercises |-> LibraryFind(library, search)]
    /\ Handled
    /\ UNCHANGED <<now, workouts, nextId, library, slots, habit>>

LibrarySearches == {"", "squat"}

NextLibrary ==
    \/ \E e \in {SquatLight, BenchDay} : Create("u1", Undefined, e, Undefined, 0)
    \/ Start("u1")
    \/ \E id \in Ids, n \in {"Squat", "Bench Press"} : AddExercise("u1", id, n, 0)
    \/ \E search \in LibrarySearches : ExerciseLibraryGet("u2", search)

SpecLibrary == Init /\ [][NextLibrary]_vars

(***************************************************************************)
(* The habits page (app/habits/page.tsx) showing one habit, SpecHabits.    *)
(* res holds the page's state; each request of the page is answered       *)
(* before the next one is sent.                                            *)
(***************************************************************************)
\* GET /habits?date=: the completions the route sends, lines 44-57
GetHabits(h, date) ==
    LET targetDate == StartOfDay(date)
        nextDay == AddDays(targetDate, 1)
    IN  SelectSeq(h.completions,
                  LAMBDA c : /\ StartOfDay(c.date) >= targetDate
                             /\ StartOfDay(c.date) < nextDay)

\* the state of the page: selectedDate, loading, the completions of the habit
\* in habits, and analyticsData[habit._id] (Undefined when absent)
HabitsPage(selectedDate, loading, completions, analytics) ==
    [op |-> "habitsPage", selectedDate |-> selectedDate, loading |-> loading,
     completions |-> completions, analytics |-> analytics]

\* setSelectedDate and the effect of line 106: fetchData starts
SetSelectedDate(date) ==
    /\ res' = [res EXCEPT !.selectedDate = date, !.loading = TRUE]
    /\ UNCHANGED <<now, workouts, nextId, library, slots, step, habit, timeline>>

\* fetchData, lines 110-125: the responses arrive
FetchHabits ==
    /\ res.loading
    /\ res' = [res EXCEPT !.loading = FALSE,
                          !.completions = GetHabits(habit, res.selectedDate)]
    /\ UNCHANGED <<now, workouts, nextId, library, slots, step, habit, timeline>>

\* handleToggleComplete, lines 222-243: complete or uncomplete, then fetchData()
HandleToggleComplete ==
    LET today == StartOfDay(res.selectedDate)
        isCompleted == \E i \in 1..Len(res.completions) :
                            /\ StartOfDay(res.completions[i].date) = today
                            /\ res.completions[i].completed
    IN  /\ ~res.loading
        /\ habit' = IF isCompleted THEN UncompleteDoc(habit, DateAt(today))
                    ELSE CompleteDoc(habit, DateAt(today), Undefined)
        /\ res' = [res EXCEPT !.loading = TRUE]
        /\ UNCHANGED <<now, workouts, nextId, library, slots, step, timeline>>

\* toggleAnalytics / fetchAnalytics, lines 128-141: the analytics of the habit
\* are fetched once and kept
FetchAnalytics ==
    /\ ~res.analytics.defined
    /\ res' = [res EXCEPT !.analytics =
                    Def(CurrentStreak(SortDesc(Completed(habit.completions))))]
    /\ UNCHANGED <<now, workouts, nextId, library, slots, step, habit, timeline>>

\* calculateStreak, lines 323-354: the streak the page shows
CalculateStreak(page) ==
    IF page.analytics.defined THEN page.analytics.v
    ELSE LET sortedCompletions == SortDesc(Completed(page.completions))
             today == StartOfDay(page.selectedDate)
         IN  IF sortedCompletions = <<>> THEN 0
             ELSE LET lastCompletion == StartOfDay(sortedCompletions[1].date)
                  IN  IF /\ lastCompletion # today
                         /\ lastCompletion # AddDays(today, 0 - 1)
                      THEN 0
                      ELSE 1 + WalkBack(sortedCompletions, 2,
                                        AddDays(lastCompletion, 0 - 1))

\* the dates the user selects
PageDates == {AddDays(now, 0 - 2), AddDays(now, 0 - 1), now}

InitHabits ==
    /\ now = 0
    /\ timeline = <<>>
    /\ workouts = <<>>
    /\ nextId = 1
    /\ library = <<>>
    /\ slots = [r \in 1..MaxReqs |-> IdleSlot]
    /\ step = 0
    /\ habit \in HabitsCreated
    /\ res = HabitsPage(now, TRUE, <<>>, Undefined)

NextHabits ==
    \/ \E date \in PageDates : SetSelectedDate(date)
    \/ FetchHabits
    \/ HandleToggleComplete
    \/ FetchAnalytics

SpecHabits == InitHabits /\ [][NextHabits]_vars

(***************************************************************************)
(* Concurrent complete requests (SpecComplete).  The complete route awaits *)
(* twice, at Habit.findOne and at habit.save(), so a request is two steps  *)
(* and other requests can run between them.  habit.save() sends only what  *)
(* the request changed in its own copy: a pushed record as a $push, a      *)
(* changed field of an existing record as a $set of completions.<index>,   *)
(* which Mongoose guards with the document version.                        *)
(***************************************************************************)
IdleCall ==
    [pc |-> "idle", date |-> DateAbsent, value |-> Undefined, loaded |-> NoHabit,
     status |-> 0, loadedAt |-> 0, savedAt |-> 0]

\* await Habit.findOne({ _id, userId }) and the 404 reply
CompleteLoad(r, u, date, value) ==
    /\ slots[r].pc = "idle"
    /\ step' = step + 1
    /\ IF ~OwnedHabit(u)
       THEN /\ slots' = [slots EXCEPT ![r] =
                    [IdleCall EXCEPT !.pc = "done", !.status = 404]]
            /\ HabitNotFound("complete", u)
       ELSE /\ slots' = [slots EXCEPT ![r] =
                    [IdleCall EXCEPT !.pc = "loaded", !.date = date,
                                     !.value = value, !.loaded = habit,
                                     !.loadedAt = step + 1]]
            /\ UNCHANGED <<habit, res>>
    /\ UNCHANGED <<now, workouts, nextId, library, timeline>>

\* the stored version is the one the request loaded: only a push changes the
\* version, and every push makes the array longer
VersionMatches(loaded) == Len(habit.completions) = Len(loaded.completions)

\* lines 254-275 on the loaded copy, await habit.save() and the reply
CompleteSave(r) ==
    LET call == slots[r]
        existing == FindCompletion(call.loaded.completions,
                                   CompletionDate(call.date))
        doc == CompleteDoc(call.loaded, call.date, call.value)
        ok == IF existing = 0 THEN TRUE ELSE VersionMatches(call.loaded)
    IN  /\ call.pc = "loaded"
        /\ step' = step + 1
        /\ habit' = IF ~ok THEN habit
                    ELSE IF existing = 0
                    THEN [habit EXCEPT !.completions =
                            Append(@, doc.completions[Len(doc.completions)])]
                    ELSE [habit EXCEPT !.completions[existing] =
                            doc.completions[existing]]
        /\ slots' = [slots EXCEPT ![r].pc = "done",
                                  ![r].status = IF ok THEN 200 ELSE 500,
                                  ![r].savedAt = step + 1]
        /\ res' = [op |-> "complete", user |-> call.loaded.userId,
                   status |-> IF ok THEN 200 ELSE 500,
                   existing |-> existing # 0]
        /\ UNCHANGED <<now, workouts, nextId, library, timeline>>

RaceDates == {DateAbsent, DateAt(DayTicks)}

InitComplete ==
    /\ now = 0
    /\ timeline = <<>>
    /\ workouts = <<>>
    /\ nextId = 1
    /\ library = <<>>
    /\ slots = [r \in 1..MaxReqs |-> IdleCall]
    /\ step = 0
    /\ habit \in HabitsCreated
    /\ res = NoRes

NextComplete ==
    \/ \E r \in 1..MaxReqs, date \in RaceDates, value \in Optional({1}) :
            CompleteLoad(r, "u1", date, value)
    \/ \E r \in 1..MaxReqs : CompleteSave(r)

SpecComplete == InitComplete /\ [][NextComplete]_vars

(***************************************************************************)
(* The workouts page (app/workouts/page.tsx) of one user, SpecPage.  res   *)
(* holds the page's state, slots the page's requests: a request is sent,   *)
(* handled by the server and its response handled by the page, and the     *)
(* requests in flight are handled and answered in any order.               *)
(***************************************************************************)
IdleRequest ==
    [pc |-> "idle", kind |-> "", id |-> 0, status |-> 0, workout |-> Undefined,
     sentAt |-> 0, doneAt |-> 0]

\* useState<Workout | null>: the page showing activeWorkout (Undefined for null)
WorkoutsPage(activeWorkout) == [op |-> "workoutsPage", activeWorkout |-> activeWorkout]

\* the page sends request r
Sent(r, kind, id) ==
    /\ slots[r].pc = "idle"
    /\ step' = step + 1
    /\ slots' = [slots EXCEPT ![r] =
            [IdleRequest EXCEPT !.pc = "sent", !.kind = kind, !.id = id,
                                !.sentAt = step + 1]]
    /\ UNCHANGED <<now, workouts, nextId, library, habit, res, timeline>>

\* the interval of the timer effect, which runs while the page shows an active
\* workout, calls updateTimer: workoutAPI.getActive()
UpdateTimer(r) ==
    /\ res.activeWorkout.defined /\ res.activeWorkout.v.status = "active"
    /\ Sent(r, "getActive", 0)

\* handleEndWorkout up to its await: workoutAPI.end(activeWorkout._id)
HandleEndWorkout(r) ==
    /\ res.activeWorkout.defined
    /\ Sent(r, "end", res.activeWorkout.v.id)

\* handleStartWorkout up to its await: workoutAPI.start()
HandleStartWorkout(r) == Sent(r, "start", 0)

\* what the routes send of a workout, as far as the page uses it
WorkoutJson(id, doc) == Def([id |-> id, status |-> doc.status])

\* the server answers request r
Answered(r, status, workout) ==
    /\ step' = step + 1
    /\ slots' = [slots EXCEPT ![r].pc = "answered", ![r].status = status,
                              ![r].workout = workout]
    /\ UNCHANGED <<now, library, habit, res, timeline>>

\* the server handles request r: GET /active/current, POST /:id/end, POST /start
Served(r, u) ==
    /\ slots[r].pc = "sent"
    /\ IF slots[r].kind = "getActive"
       THEN /\ IF ActiveQuery(u) = {} THEN Answered(r, 200, Undefined)
               ELSE \E a \in ActiveQuery(u) :
                        Answered(r, 200, WorkoutJson(a, workouts[a]))
            /\ UNCHANGED <<workouts, nextId>>
       ELSE IF slots[r].kind = "end"
       THEN LET id == slots[r].id
            IN  IF ~Owned(u, id)
                THEN Answered(r, 404, Undefined) /\ UNCHANGED <<workouts, nextId>>
                ELSE IF workouts[id].status \notin {"active", "paused"}
                THEN Answered(r, 400, Undefined) /\ UNCHANGED <<workouts, nextId>>
                ELSE /\ workouts' = [workouts EXCEPT ![id] = EndedWorkout(id)]
                     /\ Answered(r, 200, WorkoutJson(id, EndedWorkout(id)))
                     /\ UNCHANGED nextId
       ELSE IF ActiveQuery(u) # {}
            THEN Answered(r, 400, Undefined) /\ UNCHANGED <<workouts, nextId>>
            ELSE /\ Insert(StartedWorkout(u))
                 /\ Answered(r, 201, WorkoutJson(nextId, StartedWorkout(u)))

\* the page has handled the response of request r
Received(r, kind, activeWorkout) ==
    /\ slots[r].pc = "answered" /\ slots[r].kind = kind
    /\ step' = step + 1
    /\ slots' = [slots EXCEPT ![r].pc = "done", ![r].doneAt = step + 1]
    /\ res' = WorkoutsPage(activeWorkout)
    /\ UNCHANGED <<now, workouts, nextId, library, habit, timeline>>

\* updateTimer after its await: if (response.data.workout) setActiveWorkout(...)
UpdateTimerResponse(r) ==
    Received(r, "getActive",
             IF slots[r].workout.defined THEN slots[r].workout
             ELSE res.activeWorkout)

\* handleEndWorkout after its await: setActiveWorkout(null), or the catch block
HandleEndWorkoutResponse(r) ==
    Received(r, "end",
             IF slots[r].status = 200 THEN Undefined ELSE res.activeWorkout)

\* handleStartWorkout after its await: setActiveWorkout(response.data.workout),
\* or the catch block
HandleStartWorkoutResponse(r) ==
    Received(r, "start",
             IF slots[r].status = 201 THEN slots[r].workout
             ELSE res.activeWorkout)

InitPage ==
    /\ now = 0
    /\ timeline = <<>>
    /\ workouts = <<>>
    /\ nextId = 1
    /\ library = <<>>
    /\ slots = [r \in 1..MaxReqs |-> IdleRequest]
    /\ step = 0
    /\ habit = NoHabit
    /\ res = WorkoutsPage(Undefined)

NextPage ==
    \E r \in 1..MaxReqs :
        \/ UpdateTimer(r)
        \/ HandleEndWorkout(r)
        \/ HandleStartWorkout(r)
        \/ Served(r, "u1")
        \/ UpdateTimerResponse(r)
        \/ HandleEndWorkoutResponse(r)
        \/ HandleStartWorkoutResponse(r)

SpecPage == InitPage /\ [][NextPage]_vars

(***************************************************************************)
(* The stopwatch of a workout: SpecTimer lets the clock advance by one     *)
(* tick (half a second) between the life-cycle requests of one user,       *)
(* SpecSeconds by whole seconds.  timeline records, outside the program,   *)
(* how long each workout has really been active and paused.                *)
(***************************************************************************)
MaxTime == 6            \* last clock tick of SpecTimer and SpecSeconds

\* ticks workout id has spent in the status field ("active" or "paused")
Spent(id) ==
    IF id \in DOMAIN timeline THEN timeline[id] ELSE [active |-> 0, paused |-> 0]

\* n ticks pass between two requests
Elapse(n) ==
    /\ now + n <= MaxTime
    /\ now' = now + n
    /\ timeline' = [id \in DOMAIN workouts |->
            [active |-> Spent(id).active
                          + (IF workouts[id].status = "active" THEN n ELSE 0),
             paused |-> Spent(id).paused
                          + (IF workouts[id].status = "paused" THEN n ELSE 0)]]
    /\ UNCHANGED <<workouts, nextId, library, slots, step, habit, res>>

\* the life-cycle requests of one user
Lifecycle(u) ==
    \/ Start(u)
    \/ \E id \in Ids : Pause(u, id)
    \/ \E id \in Ids : Resume(u, id)
    \/ \E id \in Ids : End(u, id)

NextTimer == Elapse(1) \/ Lifecycle("u1")

SpecTimer == Init /\ [][NextTimer]_vars

NextSeconds == Elapse(SecTicks) \/ Lifecycle("u1")

SpecSeconds == Init /\ [][NextSeconds]_vars

(***************************************************************************)
(* Claims about the workout life cycle.                                    *)
(***************************************************************************)
\* the step handles the request op of the owner of workout id
OwnerRequest(op, id) ==
    /\ step' # step /\ res'.op = op /\ res'.id = id
    /\ res'.user = workouts[id].userId

\* the step moves workout id from a status of from to the status to
Moves(id, from, to) ==
    workouts[id].status \in from /\ workouts'[id].status = to

\* the step answers the request op on workout id with 400 and changes nothing
Refused(op, id) ==
    OwnerRequest(op, id) => res'.status = 400 /\ workouts' = workouts

(***************************************************************************)
(* C21: a workout's status changes only by pause (active to paused),       *)
(* resume (paused to active) and end (active or paused to completed) of    *)
(* that workout; start creates a workout as active; pause on a workout     *)
(* that is not active, resume on one that is not paused and end on one     *)
(* that is neither are answered 400 and change nothing; a completed        *)
(* workout stays completed for as long as it exists.                       *)
(***************************************************************************)
C21_StatusTransitions ==
    [][/\ \A id \in DOMAIN workouts \cap DOMAIN workouts' :
            /\ workouts'[id].status # workouts[id].status =>
                  \/ OwnerRequest("pause", id) /\ Moves(id, {"active"}, "paused")
                  \/ OwnerRequest("resume", id) /\ Moves(id, {"paused"}, "active")
                  \/ OwnerRequest("end", id)
                        /\ Moves(id, {"active", "paused"}, "completed")
            /\ workouts[id].status # "active" => Refused("pause", id)
            /\ workouts[id].status # "paused" => Refused("resume", id)
            /\ workouts[id].status \notin {"active", "paused"} => Refused("end", id)
            /\ workouts[id].status = "completed" =>
                  workouts'[id].status = "completed"
       /\ (step' # step /\ res'.op = "start" /\ res'.status = 201) =>
            /\ res'.activeWorkoutId \in DOMAIN workouts' \ DOMAIN workouts
            /\ workouts'[res'.activeWorkoutId].status = "active"]_vars

\* a workout was paused and ended, and a pause of the completed workout by its
\* owner has been refused
C21_Witness ==
    /\ res.op = "pause" /\ res.status = 400
    /\ res.id \in DOMAIN workouts
    /\ workouts[res.id].userId = res.user
    /\ workouts[res.id].status = "completed"
    /\ workouts[res.id].startTime # NullTime

\* the step ends workout id, which was begun with start
Ends(id) ==
    /\ OwnerRequest("end", id) /\ res'.status = 200
    /\ workouts[id].startTime # NullTime

(***************************************************************************)
(* C22: the duration stored when a workout is ended is the total time the  *)
(* workout was active, in whole seconds, whatever the number of pause and  *)
(* resume cycles and whether it is ended while active or while paused.     *)
(***************************************************************************)
C22_DurationIsActiveTime ==
    [][\A id \in DOMAIN workouts :
          Ends(id) => workouts'[id].duration = Spent(id).active \div SecTicks]_vars

RacedComplete(r1, r2) ==
    /\ r1 # r2
    /\ slots[r1].pc = "done" /\ slots[r2].pc = "done"
    /\ slots[r1].status = 200 /\ slots[r2].status = 200
    /\ CompletionDate(slots[r1].date) = CompletionDate(slots[r2].date)
    /\ slots[r1].loadedAt < slots[r2].savedAt
    /\ slots[r2].loadedAt < slots[r1].savedAt

(***************************************************************************)
(* C23: after two complete requests for the same habit and date that both  *)
(* loaded the habit before either saved, the habit has exactly one         *)
(* completion record for that date.                                        *)
(***************************************************************************)
C23_RaceOneRecord ==
    \A r1, r2 \in 1..MaxReqs :
        RacedComplete(r1, r2) =>
            Cardinality(RecordsOn(habit, DayOf(CompletionDate(slots[r1].date)))) = 1

\* request e is an end request that has succeeded, and the user has not
\* started a workout since its response arrived
EndedSince(e) ==
    /\ slots[e].kind = "end" /\ slots[e].pc = "done" /\ slots[e].status = 200
    /\ \A r \in 1..MaxReqs :
            slots[r].kind = "start" => slots[r].sentAt < slots[e].doneAt

(***************************************************************************)
(* C24: once an end request has succeeded, the workouts page shows no      *)
(* active workout until the user starts a new one, in whatever order the   *)
(* responses of the polling requests and of the end request arrive.        *)
(***************************************************************************)
C24_EndedStaysEnded ==
    \A e \in 1..MaxReqs : EndedSince(e) => ~res.activeWorkout.defined

(***************************************************************************)
(* C25: the add-exercise request adds an exercise only to a workout that   *)
(* is in progress (active or paused); it does not change the exercise list *)
(* of a completed workout.                                                 *)
(***************************************************************************)
C25_AddExerciseInProgressOnly ==
    [][\A id \in DOMAIN workouts :
          (/\ OwnerRequest("addExercise", id)
           /\ workouts[id].status \notin {"active", "paused"}) =>
                workouts'[id].exercises = workouts[id].exercises]_vars

(***************************************************************************)
(* C26: an update of a workout that is active or paused is answered 400    *)
(* and changes nothing; an update of a completed workout never changes its *)
(* status, its start time or its end time.                                 *)
(***************************************************************************)
C26_UpdateCompletedOnly ==
    [][\A id \in DOMAIN workouts :
          OwnerRequest("update", id) =>
            IF workouts[id].status \in {"active", "paused"}
            THEN res'.status = 400 /\ workouts' = workouts /\ library' = library
            ELSE /\ res'.status = 200
                 /\ workouts'[id].status = workouts[id].status
                 /\ workouts'[id].startTime = workouts[id].startTime
                 /\ workouts'[id].endTime = workouts[id].endTime]_vars

\* a workout that was started and ended has been given another date by an update
C26_Witness ==
    /\ res.op = "update" /\ res.status = 200
    /\ workouts[res.id].status = "completed"
    /\ workouts[res.id].startTime # NullTime
    /\ workouts[res.id].date # workouts[res.id].startTime

(***************************************************************************)
(* C28: the responses a user receives depend only on that user's own       *)
(* requests.  In SpecLibrary user u2 makes only read requests, so whatever *)
(* user u1 has created or added, each response to u2 is the response the   *)
(* same request gets when u1 has made no request at all.                   *)
(***************************************************************************)
C28_OwnRequestsOnly ==
    [][(step' # step /\ res'.user = "u2") =>
            res'.exercises = LibraryFind(<<>>, res'.search)]_vars

\* the days parameters that parseInt reads as a positive number
PositiveDays == {q \in DaysInputs : q.kind = "absent" \/ (q.kind = "int" /\ q.n > 0)}

(***************************************************************************)
(* C29: for every completion history that complete and uncomplete requests *)
(* can produce and every positive days parameter, the completionRate that  *)
(* analytics returns lies between 0 and 100 (here in hundredths of a       *)
(* percent).                                                               *)
(***************************************************************************)
C29_RateIsPercentage ==
    [][AnalyticsStep =>
          \A q \in PositiveDays :
              res'.completionRate = CompletionRate(habit.completions, q) =>
                    res'.completionRate \in 0..(100 * 100)]_vars

(***************************************************************************)
(* C30: whenever the habits page has finished loading with today selected, *)
(* the streak it shows for the habit is the currentStreak that the         *)
(* analytics route returns for the habit at that moment, before and after  *)
(* a completion was toggled and the analytics panel was opened.            *)
(***************************************************************************)
C30_PageStreakIsCurrentStreak ==
    (~res.loading /\ StartOfDay(res.selectedDate) = StartOfDay(now)) =>
        CalculateStreak(res) = CurrentStreak(SortDesc(Completed(habit.completions)))

====
